---------------------------- MODULE Spec2Model ----------------------------
(***************************************************************************)
(* NyaySetu draft generator: the requirement classifier                    *)
(* (orchestrator.py), the legal validator (validation.py) and the          *)
(* generation flows that call them (nyaysetu_main.py, app.py).             *)
(*                                                                         *)
(* Python strings are TLA+ strings; Len, SubSeq, Tail and \o act on them   *)
(* character by character, so `kw in text`, lower(), strip() and int()     *)
(* are computed on the characters as the interpreter computes them.        *)
(***************************************************************************)
EXTENDS Integers, Sequences, FiniteSets, TLC

VARIABLES
    \* ---- DocumentOrchestrator.analyze_requirements (orchestrator.py) ----
    description,     \* the argument of the last analyze_requirements call
    api_key,         \* self.groq_client.api_key is set (GROQ_API_KEY)
    groq_response,   \* what the service call of the last run produced
    groq_calls,      \* number of service calls made by the last run
    scores,          \* the local dict `scores` when the last run ended
    locals,          \* primary_doc and confidence when the last run ended,
                     \* and confidence as it was before line 478
    result           \* what the last run returned (or that it raised)

cvars == <<description, api_key, groq_response, groq_calls, scores, locals,
           result>>

VARIABLES
    \* ---- the threshold table of analyze_requirements, applied on its own ----
    max_score,       \* the local max_score
    score_gap,       \* the local score_gap
    confidence       \* the confidence computed from them, 0 before

tvars == <<max_score, score_gap, confidence>>

VARIABLES
    \* ---- SmartLegalValidator (validation.py) ----
    user_data,       \* the dict a validate method is called with
    jurisdictions,   \* self.jurisdictions, loaded at construction
    rti_categories,  \* self.rti_categories, loaded at construction
    errors,          \* self.errors
    warnings,        \* self.warnings
    blocking_issues, \* self.blocking_issues
    suggestions,     \* self.suggestions
    returned,        \* what the last validate call returned, None before
    last_call        \* the last method called on the validator, None before

vvars == <<user_data, jurisdictions, rti_categories, errors, warnings,
           blocking_issues, suggestions, returned, last_call>>

VARIABLES
    \* ---- the generation flows (nyaysetu_main.py, app.py) ----
    pc,              \* where the CLI is: at its menu or inside a flow
    validated_data,  \* <<user_data>> as the flow's validation passed it,
                     \* <<>> when the running flow has none
    generated,       \* <<user_data>> as the running flow handed it to
                     \* generator.generate, <<>> when it has not
    response         \* the status code of the last HTTP response, 0 before

fvars == <<pc, validated_data, generated, response>>

VARIABLES
    \* ---- one validator called again and again ----
    earlier          \* the four lists as they were when the last call of the
                     \* sequence began

svars == <<earlier>>

VARIABLES
    \* ---- validation requests interleaved on one validator ----
    requests         \* per request: the method it calls and its user_data,
                     \* where it is in the method, what the call returned
                     \* and the lists its caller read after the call

ivars == <<requests>>

VARIABLES
    \* ---- _select_clarification_questions called on its own ----
    question_args,   \* its arguments description and scores
    selection        \* what it returned, and whether it has

qvars == <<question_args, selection>>

VARIABLES
    \* ---- DocumentLifecycle (document_engine.py) and its database ----
    db_client,       \* self.db.client is not None: the database is connected
    db_lifecycles,   \* the collection `lifecycles` of the database, by hash
    lifecycles,      \* self.lifecycles
    lifecycle_call   \* the last call on the lifecycle manager and how it ended

lvars == <<db_client, db_lifecycles, lifecycles, lifecycle_call>>

ovars == <<svars, ivars, qvars, lvars>>

vars == <<cvars, tvars, vvars, fvars, ovars>>

-----------------------------------------------------------------------------
(***************************************************************************)
(* Bounds of the model.                                                    *)
(***************************************************************************)
\* a state history grows to at most this many entries
MaxHistory == 3
\* a description is at most this many fragments, joined by single spaces
MaxFragments == 2
\* the largest max_score and score_gap the threshold table is applied to
MaxScore == 55

-----------------------------------------------------------------------------
(***************************************************************************)
(* Python str operations.                                                  *)
(***************************************************************************)
None == "<None>"

Char(s, i) == SubSeq(s, i, i)

\* Python `kw in s` for two strings
Contains(s, kw) ==
    \/ Len(kw) = 0
    \/ \E i \in 1..(Len(s) - Len(kw) + 1) : SubSeq(s, i, i + Len(kw) - 1) = kw

StartsWith(s, p) == Len(s) >= Len(p) /\ SubSeq(s, 1, Len(p)) = p

EndsWith(s, p) == Len(s) >= Len(p) /\ SubSeq(s, Len(s) - Len(p) + 1, Len(s)) = p

UpperLetters == "ABCDEFGHIJKLMNOPQRSTUVWXYZ"
LowerLetters == "abcdefghijklmnopqrstuvwxyz"
Digits == "0123456789"

IsUpperChar(c) == \E i \in 1..26 : Char(UpperLetters, i) = c
IsLowerChar(c) == \E i \in 1..26 : Char(LowerLetters, i) = c
IsDigitChar(c) == \E i \in 1..10 : Char(Digits, i) = c

LowerChar(c) ==
    IF IsUpperChar(c)
    THEN Char(LowerLetters, CHOOSE i \in 1..26 : Char(UpperLetters, i) = c)
    ELSE c

RECURSIVE Lower(_)
\* str.lower()
Lower(s) == IF Len(s) = 0 THEN "" ELSE LowerChar(Char(s, 1)) \o Lower(Tail(s))

RECURSIVE ReplaceSpace(_, _)
\* str.replace(' ', by)
ReplaceSpace(s, by) ==
    IF Len(s) = 0 THEN ""
    ELSE (IF Char(s, 1) = " " THEN by ELSE Char(s, 1)) \o ReplaceSpace(Tail(s), by)

-----------------------------------------------------------------------------
(***************************************************************************)
(* Python numbers.  The service's JSON "confidence" may be a float, and    *)
(* the code stores it in `scores` and in the result, so a number is its    *)
(* floor v and whether a fractional part follows it (v + 1/2 stands for    *)
(* every non-integer in (v, v+1)).                                         *)
(***************************************************************************)
Num(n) == [v |-> n, frac |-> FALSE]
Frac(n) == [v |-> n, frac |-> TRUE]

\* x >= k and x < k for an integer k
NumGE(x, k) == x.v >= k
NumLT(x, k) == x.v < k
\* a > b
NumGT(a, b) == a.v > b.v \/ (a.v = b.v /\ a.frac /\ ~b.frac)
\* max(a, b): Python returns the first of two equal arguments
PyMax(a, b) == IF NumGT(b, a) THEN b ELSE a
IsInteger(x) == ~x.frac


-----------------------------------------------------------------------------
(***************************************************************************)
(* orchestrator.py: the keyword tables.  base_keywords holds over 200      *)
(* phrases per type; the model keeps the ones below, among them every      *)
(* phrase that occurs in a modelled description, so a modelled             *)
(* description scores here what it scores in the program.  The negative    *)
(* lists and the edge-case list are complete.                              *)
(***************************************************************************)
RtiBaseKeywords ==
    { "rti", "pio", "record", "government record", "file notings",
      "audit report", "report", "transcript", "diploma", "mark sheet",
      "marksheet copy", "government information" }

RtiNegativeKeywords ==
    { "court affidavit", "sworn before", "notarize", "notary", "deponent",
      "solemnly swear", "penalty of perjury", "court case affidavit",
      "file in court", "submit to court", "legal proceedings affidavit",
      "my name is", "i hereby declare", "i solemnly" }

AffidavitBaseKeywords ==
    { "affidavit", "hereby declare", "affirm", "oath", "deponent",
      "my name is", "alias", "unmarried", "married", "notary", "will",
      "proof of identity", "declare that i" }

AffidavitNegativeKeywords ==
    { "government record", "government file", "public authority record",
      "rti application", "information commission", "pio", "cpio",
      "right to information", "seeking information from government",
      "government information", "public information officer" }

\* _expand_keywords: the variants of one keyword
KeywordVariants(keyword) ==
    (IF EndsWith(keyword, "s") /\ Len(keyword) > 3
        THEN {SubSeq(keyword, 1, Len(keyword) - 1)}
        ELSE IF ~EndsWith(keyword, "s") THEN {keyword \o "s"} ELSE {})
    \cup
    (IF Contains(keyword, " ")
        THEN {ReplaceSpace(keyword, "-"), ReplaceSpace(keyword, "")}
        ELSE {})

\* _expand_keywords(base_keywords): a list without duplicates, here a set
ExpandKeywords(base_keywords) ==
    base_keywords \cup UNION {KeywordVariants(k) : k \in base_keywords}

\* dict order of TEMPLATES
TemplateOrder == <<"RTI_APPLICATION", "AFFIDAVIT">>
DocTypes == {TemplateOrder[i] : i \in 1..Len(TemplateOrder)}

RtiComplexity == 8
AffidavitComplexity == 7

TEMPLATES ==
    [ RTI_APPLICATION |->
        [ name |-> "RTI Application", complexity |-> RtiComplexity,
          keywords |-> ExpandKeywords(RtiBaseKeywords),
          negative_keywords |-> RtiNegativeKeywords ],
      AFFIDAVIT |->
        [ name |-> "Affidavit", complexity |-> AffidavitComplexity,
          keywords |-> ExpandKeywords(AffidavitBaseKeywords),
          negative_keywords |-> AffidavitNegativeKeywords ] ]

\* analyze_requirements: edge_case_keywords
EdgeCaseKeywords ==
    { "proof that i am", "proof that i", "certificate that i am",
      "certificate that i", "declare that i", "state that i",
      "affirm that i", "certify that i", "confirm that i", "testify that i",
      "my name is", "i hereby", "i solemnly", "proof of my",
      "officially confirm", "officially declare" }

EdgeBoost == 50
PositiveWeight == 10
NegativeWeight == 20

Matches(keywords, desc_lower) ==
    Cardinality({kw \in keywords : Contains(desc_lower, kw)})

\* a slip: the boost of a matched phrase is 45
EdgeCaseBoost_FortyFive(desc_lower) == 45 * Matches(EdgeCaseKeywords, desc_lower)

EdgeCaseBoost(desc_lower) == EdgeBoost * Matches(EdgeCaseKeywords, desc_lower)

Max2(a, b) == IF a >= b THEN a ELSE b

\* a slip: the edge-case boost goes to the RTI score
KeywordScore_BoostRti(doc_type, desc_lower) ==
    LET positive_matches == Matches(TEMPLATES[doc_type].keywords, desc_lower)
        negative_matches ==
            Matches(TEMPLATES[doc_type].negative_keywords, desc_lower)
        score == (positive_matches * PositiveWeight)
                     - (negative_matches * NegativeWeight)
        boosted == IF doc_type = "RTI_APPLICATION"
                   THEN score + EdgeCaseBoost(desc_lower) ELSE score
    IN  Max2(0, boosted)

\* scores[doc_type] of analyze_requirements, lines 434-448
KeywordScore(doc_type, desc_lower) ==
    LET positive_matches == Matches(TEMPLATES[doc_type].keywords, desc_lower)
        negative_matches ==
            Matches(TEMPLATES[doc_type].negative_keywords, desc_lower)
        score == (positive_matches * PositiveWeight)
                     - (negative_matches * NegativeWeight)
        boosted == IF doc_type = "AFFIDAVIT"
                   THEN score + EdgeCaseBoost(desc_lower) ELSE score
    IN  Max2(0, boosted)

KeywordScores(desc_lower) ==
    [doc_type \in DocTypes |-> KeywordScore(doc_type, desc_lower)]

\* max(scores, key=scores.get): the first key, in dict order, of the largest
PrimaryDoc(sc) ==
    LET best == CHOOSE i \in 1..Len(TemplateOrder) :
                   /\ \A j \in 1..Len(TemplateOrder) :
                          sc[TemplateOrder[j]] <= sc[TemplateOrder[i]]
                   /\ \A j \in 1..(i - 1) :
                          sc[TemplateOrder[j]] < sc[TemplateOrder[i]]
    IN  TemplateOrder[best]

\* sorted(scores.values())[-2]
SecondHighest(sc) ==
    LET others == {sc[t] : t \in DocTypes \ {PrimaryDoc(sc)}}
    IN  CHOOSE x \in others : \A y \in others : y <= x

\* a slip: two rows of the table carry each other's value
KeywordConfidence_RowsSwapped(ms, gap) ==
    IF ms >= 50 \/ gap >= 30 THEN 98
    ELSE IF ms >= 30 /\ gap >= 15 THEN 85
    ELSE IF ms >= 20 /\ gap >= 10 THEN 95
    ELSE IF ms >= 15 /\ gap >= 5 THEN 75
    ELSE IF ms >= 10 THEN 65
    ELSE 50

\* the threshold table of analyze_requirements, lines 465-476
KeywordConfidence(ms, gap) ==
    IF ms >= 50 \/ gap >= 30 THEN 98
    ELSE IF ms >= 30 /\ gap >= 15 THEN 95
    ELSE IF ms >= 20 /\ gap >= 10 THEN 85
    ELSE IF ms >= 15 /\ gap >= 5 THEN 75
    ELSE IF ms >= 10 THEN 65
    ELSE 50

ConfidenceThreshold == 70
GroqAdoptThreshold == 80
ClarificationFloor == 55

-----------------------------------------------------------------------------
(***************************************************************************)
(* orchestrator.py: the clarification question bank, in dict order, and    *)
(* the selection of questions.                                             *)
(***************************************************************************)
CLARIFICATION_QUESTIONS ==
    << [ key |-> "rti_information_vs_declaration", category |-> "RTI",
         trigger_keywords |->
             {"information", "record", "document", "copy", "file", "data"},
         questions |->
             << "Are you asking for existing records held by a government office?",
                "Do you want copies of documents already available with an authority?",
                "Are you trying to know something, not declare something?",
                "Is the information already created by a government department?" >> ],
       [ key |-> "rti_authority", category |-> "RTI",
         trigger_keywords |->
             {"government", "office", "department", "authority", "ministry"},
         questions |->
             << "Which government department holds this information?",
                "Is the authority a public university or government college?",
                "Is the authority a municipal corporation or panchayat?",
                "Is the information held by a police station or revenue office?" >> ],
       [ key |-> "rti_document_type", category |-> "RTI",
         trigger_keywords |->
             {"exam", "answer", "marksheet", "land", "tender", "fir"},
         questions |->
             << "Are you asking for answer sheets or exam records?",
                "Are you requesting land records or property documents?",
                "Are you seeking service or salary records?",
                "Are you requesting tender or contract documents?" >> ],
       [ key |-> "rti_transparency", category |-> "RTI",
         trigger_keywords |-> {"status", "why", "reason", "action", "delay"},
         questions |->
             << "Are you asking why or how a decision was taken?",
                "Are you seeking file movement or file notings?",
                "Are you asking for status, action taken, or reasons?",
                "Is this about transparency or accountability?" >> ],
       [ key |-> "affidavit_declaration", category |-> "AFFIDAVIT",
         trigger_keywords |->
             {"declare", "state", "affirm", "swear", "my", "i am"},
         questions |->
             << "Are you trying to declare a personal fact?",
                "Are you stating something as true to your knowledge?",
                "Do you need to affirm or swear a statement?",
                "Are you declaring information about yourself?" >> ],
       [ key |-> "affidavit_identity", category |-> "AFFIDAVIT",
         trigger_keywords |->
             {"name", "address", "identity", "proof", "dob", "birth"},
         questions |->
             << "Is this about name correction or identity proof?",
                "Is this about address proof or residence verification?",
                "Is this about date of birth correction?",
                "Is this about relationship proof or legal heir status?" >> ],
       [ key |-> "affidavit_income", category |-> "AFFIDAVIT",
         trigger_keywords |->
             {"income", "salary", "bpl", "earning", "financial", "poor"},
         questions |->
             << "Are you declaring your income or financial status?",
                "Is this for scholarship or fee concession?",
                "Are you declaring unemployment or dependency?",
                "Is this related to BPL or EWS status?" >> ],
       [ key |-> "affidavit_loss", category |-> "AFFIDAVIT",
         trigger_keywords |->
             {"lost", "damage", "missing", "destroyed", "misplace"},
         questions |->
             << "Have you lost a document?",
                "Is the original document damaged or destroyed?",
                "Are you declaring loss for reissue or duplicate?",
                "Have you filed an FIR for the loss?" >> ],
       [ key |-> "affidavit_court", category |-> "AFFIDAVIT",
         trigger_keywords |-> {"court", "case", "judge", "legal", "petition"},
         questions |->
             << "Will this document be submitted to a court?",
                "Is this part of a legal proceeding?",
                "Is this required by a judge or magistrate?",
                "Is this a court-mandated affidavit?" >> ],
       [ key |-> "affidavit_education", category |-> "AFFIDAVIT",
         trigger_keywords |->
             {"gap", "year", "anti-ragging", "bonafide", "character"},
         questions |->
             << "Is this about education gap or year gap?",
                "Is this for bonafide or character certificate?",
                "Is this an anti-ragging affidavit?",
                "Is this for college admission?" >> ],
       [ key |-> "confusion_resolution", category |-> "BOTH",
         trigger_keywords |-> {"proof", "certificate", "verify", "confirm"},
         questions |->
             << "Are you trying to change a record or just get a copy?",
                "Do you want the government to accept your statement?",
                "Are you trying to prove something about yourself?",
                "Are you asking the authority to answer questions?" >> ] >>

ConfusionResolution ==
    CHOOSE i \in 1..Len(CLARIFICATION_QUESTIONS) :
        CLARIFICATION_QUESTIONS[i].key = "confusion_resolution"

\* scores.get(doc_type, 0)
ScoreGet(sc, doc_type) == IF doc_type \in DOMAIN sc THEN sc[doc_type] ELSE Num(0)

\* _select_clarification_questions: primary_category
PrimaryCategory(sc) ==
    IF NumGT(ScoreGet(sc, "RTI_APPLICATION"), ScoreGet(sc, "AFFIDAVIT"))
        THEN "RTI"
    ELSE IF NumGT(ScoreGet(sc, "AFFIDAVIT"), ScoreGet(sc, "RTI_APPLICATION"))
        THEN "AFFIDAVIT"
    ELSE "BOTH"

Triggered(cat_data, desc_lower) ==
    \E kw \in cat_data.trigger_keywords : Contains(desc_lower, kw)

\* the categories of the bank one of whose trigger keywords is in the text
TriggeredCategories(desc_lower) ==
    {i \in 1..Len(CLARIFICATION_QUESTIONS) :
        Triggered(CLARIFICATION_QUESTIONS[i], desc_lower)}

RECURSIVE RelevantCats(_, _, _)
\* relevant_cats after the first n entries of the bank have been visited:
\* indices into CLARIFICATION_QUESTIONS
RelevantCats(triggered, primary_category, n) ==
    IF n = 0 THEN <<>>
    ELSE LET before == RelevantCats(triggered, primary_category, n - 1)
             cat_data == CLARIFICATION_QUESTIONS[n]
         IN  IF n \notin triggered THEN before
             ELSE IF cat_data.category = primary_category
                     \/ cat_data.category = "BOTH"
                  THEN <<n>> \o before
                  ELSE Append(before, n)

Min2(a, b) == IF a <= b THEN a ELSE b

MaxCategories == 2
QuestionsPerCategory == 2
MaxQuestions == 4

\* a slip: one question from each category
CategoryQuestions_OnlyFirst(cat_data, primary_category) ==
    [ i \in 1..Min2(1, Len(cat_data.questions)) |->
        [ text |-> cat_data.questions[i],
          leads_to |-> IF cat_data.category = "RTI" THEN "RTI_APPLICATION"
                       ELSE IF cat_data.category = "AFFIDAVIT" THEN "AFFIDAVIT"
                       ELSE primary_category,
          category |-> cat_data.category ] ]

\* the questions contributed by one selected category
CategoryQuestions(cat_data, primary_category) ==
    [ i \in 1..Min2(QuestionsPerCategory, Len(cat_data.questions)) |->
        [ text |-> cat_data.questions[i],
          leads_to |-> IF cat_data.category = "RTI" THEN "RTI_APPLICATION"
                       ELSE IF cat_data.category = "AFFIDAVIT" THEN "AFFIDAVIT"
                       ELSE primary_category,
          category |-> cat_data.category ] ]

RECURSIVE FinalQuestions(_, _, _)
FinalQuestions(selected_cats, primary_category, n) ==
    IF n = 0 THEN <<>>
    ELSE FinalQuestions(selected_cats, primary_category, n - 1)
         \o CategoryQuestions(CLARIFICATION_QUESTIONS[selected_cats[n]],
                              primary_category)

\* _select_clarification_questions(description, scores); `triggered` is
\* TriggeredCategories(description.lower())
SelectClarificationQuestions(triggered, sc) ==
    LET primary_category == PrimaryCategory(sc)
        matched == RelevantCats(triggered, primary_category,
                                Len(CLARIFICATION_QUESTIONS))
        relevant_cats == IF Len(matched) = 0 THEN <<ConfusionResolution>>
                         ELSE matched
        max_categories == Min2(MaxCategories, Len(relevant_cats))
        selected_cats == SubSeq(relevant_cats, 1, max_categories)
        final_questions ==
            FinalQuestions(selected_cats, primary_category, Len(selected_cats))
    IN  SubSeq(final_questions, 1, Min2(MaxQuestions, Len(final_questions)))

\* one formatted question of _generate_clarification_response
FormatLlmQuestion(q_text, suggested_doc) ==
    [ question |-> q_text,
      yes |-> IF suggested_doc # None THEN suggested_doc ELSE "RTI_APPLICATION",
      no |-> IF suggested_doc = "RTI_APPLICATION" THEN "AFFIDAVIT"
             ELSE "RTI_APPLICATION" ]

OppositeDoc(suggested_doc) ==
    IF suggested_doc = "RTI_APPLICATION" THEN "AFFIDAVIT"
    ELSE IF suggested_doc = "AFFIDAVIT" THEN "RTI_APPLICATION"
    ELSE "RTI_APPLICATION"

FormatBankQuestion(q, suggested_doc) ==
    [ question |-> q.text,
      yes |-> IF q.category # "BOTH" THEN q.leads_to
              ELSE IF suggested_doc # None THEN suggested_doc
              ELSE "RTI_APPLICATION",
      no |-> OppositeDoc(suggested_doc) ]

\* _generate_clarification_response; llm_questions is a list (None and []
\* are the empty list here: both are falsy)
GenerateClarificationResponse(base_confidence, suggested_doc, triggered, sc, llm_questions) ==
    LET from_llm == [i \in 1..Len(llm_questions) |->
                        FormatLlmQuestion(llm_questions[i], suggested_doc)]
        selected_questions == SelectClarificationQuestions(triggered, sc)
        from_bank == [i \in 1..Len(selected_questions) |->
                        FormatBankQuestion(selected_questions[i], suggested_doc)]
    IN  [ status |-> "needs_clarification",
          confidence |-> PyMax(base_confidence, Num(ClarificationFloor)),
          suggested_document |-> suggested_doc,
          questions |-> IF Len(from_llm) > 0 THEN from_llm ELSE from_bank ]

-----------------------------------------------------------------------------
(***************************************************************************)
(* orchestrator.py: the external classification service.  An outcome of    *)
(* _analyze_with_groq is an exception inside the call (caught there, None   *)
(* is returned), a JSON value that is no object, or a JSON object whose    *)
(* four fields each may be missing or hold a value of any JSON type.       *)
(***************************************************************************)
Absent == "<absent>"
\* a JSON array or object where a string is expected: not hashable
Unhashable == "<unhashable>"

GroqDocumentTypes ==
    {"RTI_APPLICATION", "AFFIDAVIT", "OTHER", Unhashable, Absent}

GroqConfidences ==
    { [t |-> "absent", n |-> Num(0)],
      [t |-> "nonnum", n |-> Num(0)],      \* a string, null, a list
      [t |-> "num", n |-> Num(70)],
      [t |-> "num", n |-> Frac(79)],
      [t |-> "num", n |-> Num(80)],
      [t |-> "num", n |-> Frac(85)],
      [t |-> "num", n |-> Num(150)] }

GroqQuestions ==
    { [t |-> "absent", items |-> <<>>],
      [t |-> "list", items |-> <<>>],
      [t |-> "list", items |-> <<"Is a public office holding the record?">>],
      [t |-> "noniterable", items |-> <<>>] }   \* a non-zero number

GroqPayloads ==
    [ kind : {"payload"}, document_type : GroqDocumentTypes,
      confidence : GroqConfidences, clarification_needed : BOOLEAN,
      questions : GroqQuestions ]

NoPayload(kind) ==
    [ kind |-> kind, document_type |-> Absent,
      confidence |-> [t |-> "absent", n |-> Num(0)],
      clarification_needed |-> FALSE,
      questions |-> [t |-> "absent", items |-> <<>>] ]

GroqOutcomes ==
    GroqPayloads \cup {NoPayload("exception"), NoPayload("nondict")}

NotCalled == NoPayload("not_called")

\* `groq_result and ...`: None and the empty object are falsy
GroqTruthy(g) ==
    /\ g.kind # "exception"
    /\ g.kind = "payload" =>
          \/ g.document_type # Absent
          \/ g.confidence.t # "absent"
          \/ g.clarification_needed
          \/ g.questions.t # "absent"

\* a slip: the service's answer is adopted from the clarification threshold on
ServiceConfident_FromSeventy(g) ==
    g.confidence.t = "num" /\ NumGE(g.confidence.n, ConfidenceThreshold)

\* groq_result.get('confidence', 0) >= 80, line 482, for a number
ServiceConfident(g) ==
    g.confidence.t = "num" /\ NumGE(g.confidence.n, GroqAdoptThreshold)

\* the locals of analyze_requirements after the try block of lines 479-498,
\* or the value returned from inside it
GroqStep(text, primary_doc, conf, sc, g) ==
    LET unchanged == [ returned |-> FALSE, ret |-> None,
                       primary_doc |-> primary_doc,
                       confidence |-> conf, scores |-> sc ]
    IN  IF ~GroqTruthy(g) THEN unchanged
        ELSE IF g.kind = "nondict" THEN unchanged     \* AttributeError, caught
        ELSE IF g.confidence.t = "nonnum" THEN unchanged   \* TypeError, caught
        ELSE IF ServiceConfident(g)
        THEN IF g.document_type = Absent THEN unchanged    \* KeyError, caught
             ELSE IF g.document_type = Unhashable
             THEN \* TypeError in scores.get, caught after both assignments
                  [ unchanged EXCEPT !.primary_doc = g.document_type,
                                     !.confidence = g.confidence.n ]
             ELSE [ unchanged EXCEPT
                      !.primary_doc = g.document_type,
                      !.confidence = g.confidence.n,
                      !.scores =
                          [ t \in DOMAIN sc \cup {g.document_type} |->
                              IF t = g.document_type
                              THEN PyMax(ScoreGet(sc, t), g.confidence.n)
                              ELSE sc[t] ] ]
        ELSE IF g.clarification_needed
        THEN IF g.questions.t = "noniterable" THEN unchanged  \* TypeError, caught
             ELSE [ unchanged EXCEPT
                      !.returned = TRUE,
                      !.ret = GenerateClarificationResponse(
                                  conf, primary_doc, text.triggered,
                                  sc, g.questions.items) ]
        ELSE unchanged

ValidationAddOn == 15
BlockchainAddOn == 10

AnyWord(words, desc_lower) == \E w \in words : Contains(desc_lower, w)

\* every test analyze_requirements and its callees make on the text of the
\* description: the keyword scores of lines 427-448, the triggered
\* categories of the question bank and the challenge words of lines 514-517
TextFacts(desc) ==
    LET desc_lower == Lower(desc)
    IN  [ scores |-> KeywordScores(desc_lower),
          triggered |-> TriggeredCategories(desc_lower),
          urgent |-> AnyWord({"urgent", "emergency", "immediate"}, desc_lower),
          legal |-> AnyWord({"court", "legal", "case"}, desc_lower) ]

\* lines 500-537: the clarification request or the recommendation
Finish(text, primary_doc, conf, sc) ==
    IF NumLT(conf, ConfidenceThreshold)
    THEN GenerateClarificationResponse(conf, primary_doc,
                                       text.triggered, sc, <<>>)
    ELSE IF primary_doc \notin DOMAIN TEMPLATES
    THEN [ status |-> "raised",
           error |-> IF primary_doc = Unhashable THEN "TypeError"
                     ELSE "KeyError" ]
    ELSE LET template_info == TEMPLATES[primary_doc]
         IN  [ status |-> "success",
               primary_document |-> primary_doc,
               document_name |-> template_info.name,
               confidence |-> conf,
               estimated_complexity |-> template_info.complexity,
               complexity_score |-> template_info.complexity * 10
                                      + ValidationAddOn + BlockchainAddOn,
               potential_challenges |->
                   (IF text.urgent THEN <<"Urgent request">> ELSE <<>>)
                   \o
                   (IF text.legal /\ primary_doc = "RTI_APPLICATION"
                    THEN <<"Legal matter">> ELSE <<>>),
               recommended_approach |->
                   IF primary_doc = "RTI_APPLICATION"
                   THEN "Submit RTI application to the PIO"
                   ELSE "Prepare sworn affidavit",
               score_details |-> sc ]

\* a slip: the early return of line 452 is never taken
NoMatches_Never(ints) == FALSE

\* `not any(scores.values())`, line 452
NoMatches(ints) == \A t \in DOMAIN ints : ints[t] = 0

\* a slip: the service is called whether an API key is configured or not
ServiceAsked_IgnoresKey(kw_confidence, has_key) ==
    kw_confidence < ConfidenceThreshold

\* the condition of line 479: the keyword confidence is low and the client
\* holds an API key
ServiceAsked(kw_confidence, has_key) ==
    kw_confidence < ConfidenceThreshold /\ has_key

\* analyze_requirements from line 451 on, given the facts about the text,
\* whether an API key is configured and what the service would answer: the
\* locals it ends with and its result
AnalyzeFrom(text, has_key, g) ==
    LET ints == text.scores
        sc == [t \in DocTypes |-> Num(ints[t])]
    IN  IF NoMatches(ints)
        THEN [ scores |-> sc, groq_calls |-> 0, groq_response |-> NotCalled,
               locals |-> [ primary_doc |-> None, confidence |-> Num(0),
                            keyword_confidence |-> 0 ],
               result |-> GenerateClarificationResponse(
                              Num(0), None, text.triggered, sc, <<>>) ]
        ELSE
        LET primary_doc == PrimaryDoc(ints)
            top == ints[primary_doc]
            gap == top - SecondHighest(ints)
            kw_confidence == KeywordConfidence(top, gap)
            asked == ServiceAsked(kw_confidence, has_key)
            after == IF asked
                     THEN GroqStep(text, primary_doc, Num(kw_confidence), sc, g)
                     ELSE [ returned |-> FALSE, ret |-> None,
                            primary_doc |-> primary_doc,
                            confidence |-> Num(kw_confidence), scores |-> sc ]
        IN  [ scores |-> after.scores,
              groq_calls |-> IF asked THEN 1 ELSE 0,
              groq_response |-> IF asked THEN g ELSE NotCalled,
              locals |-> [ primary_doc |-> after.primary_doc,
                           confidence |-> after.confidence,
                           keyword_confidence |-> kw_confidence ],
              result |-> IF after.returned THEN after.ret
                         ELSE Finish(text, after.primary_doc,
                                     after.confidence, after.scores) ]

-----------------------------------------------------------------------------
(***************************************************************************)
(* The descriptions of the model: up to MaxFragments fragments joined by   *)
(* single spaces.                                                          *)
(***************************************************************************)
Fragments ==
    { "hello", "transcript", "audit report", "pio", "notary", "oath",
      "i hereby", "proof of my", "my name is", "penalty of perjury",
      "Certificate" }

RECURSIVE DescriptionsOf(_)
DescriptionsOf(n) ==
    IF n = 0 THEN {""}
    ELSE LET shorter == DescriptionsOf(n - 1)
         IN  shorter \cup Fragments
                 \cup {d \o " " \o f : d \in shorter \ {""}, f \in Fragments}

Descriptions == DescriptionsOf(MaxFragments)

\* descriptions given in full
Scenarios ==
    { "I need a copy of my marksheet from my university",
      "i hereby request a transcript and a copy of records of the audit report" }

NoResult == [status |-> "none"]

\* a request: the description and the configuration it will be analysed under
\* the classifier before any call
ClassifierIdle ==
    /\ description = ""
    /\ api_key = FALSE
    /\ groq_response = NotCalled
    /\ groq_calls = 0
    /\ scores = [t \in DocTypes |-> Num(0)]
    /\ locals = [ primary_doc |-> None, confidence |-> Num(0),
                  keyword_confidence |-> 0 ]
    /\ result = NoResult

\* the threshold table before it is applied
TableIdle == max_score = 0 /\ score_gap = 0 /\ confidence = 0

-----------------------------------------------------------------------------
(***************************************************************************)
(* SmartLegalValidator (validation.py).  user_data is a function from the  *)
(* keys present to their values: text for every key but `statements` (a    *)
(* list of texts) and `bpl` (a bool).  The four finding lists hold the     *)
(* messages the code appends, without their leading pictograms.            *)
(***************************************************************************)
IsSpaceChar(c) == c = " "
IsLetterChar(c) == IsUpperChar(c) \/ IsLowerChar(c)
\* \w of the re module
IsWordChar(c) == IsLetterChar(c) \/ IsDigitChar(c) \/ c = "_"

RECURSIVE LStrip(_)
LStrip(s) ==
    IF Len(s) > 0 /\ IsSpaceChar(Char(s, 1)) THEN LStrip(Tail(s)) ELSE s

RECURSIVE RStrip(_)
RStrip(s) ==
    IF Len(s) > 0 /\ IsSpaceChar(Char(s, Len(s)))
    THEN RStrip(SubSeq(s, 1, Len(s) - 1)) ELSE s

\* str.strip()
Strip(s) == RStrip(LStrip(s))

DigitValue(c) == (CHOOSE i \in 1..10 : Char(Digits, i) = c) - 1

RECURSIVE DigitsValue(_)
DigitsValue(s) ==
    IF Len(s) = 0 THEN 0
    ELSE DigitsValue(SubSeq(s, 1, Len(s) - 1)) * 10 + DigitValue(Char(s, Len(s)))

IsDigits(s) == Len(s) > 0 /\ \A i \in 1..Len(s) : IsDigitChar(Char(s, i))

\* int(text): surrounding whitespace and one sign are accepted; anything
\* else than decimal digits raises ValueError
PyInt(text) ==
    LET s == Strip(text)
        signed == Len(s) > 0 /\ Char(s, 1) \in {"+", "-"}
        body == IF signed THEN Tail(s) ELSE s
    IN  IF IsDigits(body)
        THEN [ ok |-> TRUE,
               value |-> IF signed /\ Char(s, 1) = "-"
                         THEN 0 - DigitsValue(body) ELSE DigitsValue(body) ]
        ELSE [ ok |-> FALSE, value |-> 0 ]

RECURSIVE NatStr(_)
NatStr(n) ==
    IF n < 10 THEN Char(Digits, n + 1)
    ELSE NatStr(n \div 10) \o Char(Digits, (n % 10) + 1)

\* str(n) of an int, as the f-strings format it
IntStr(n) == IF n < 0 THEN "-" \o NatStr(0 - n) ELSE NatStr(n)

\* str.isupper() and str.islower(): a cased character, and none of the
\* other case
IsUpper(s) ==
    /\ \E i \in 1..Len(s) : IsUpperChar(Char(s, i))
    /\ ~\E i \in 1..Len(s) : IsLowerChar(Char(s, i))
IsLower(s) ==
    /\ \E i \in 1..Len(s) : IsLowerChar(Char(s, i))
    /\ ~\E i \in 1..Len(s) : IsUpperChar(Char(s, i))

\* str.count(c) of a single character
CountChar(s, c) == Cardinality({i \in 1..Len(s) : Char(s, i) = c})

\* re.match(r'^[A-Za-z\s\.]+$', name)
NamePatternMatches(name) ==
    /\ Len(name) > 0
    /\ \A i \in 1..Len(name) :
          \/ IsLetterChar(Char(name, i))
          \/ IsSpaceChar(Char(name, i))
          \/ Char(name, i) = "."

\* re.search(r'\b\d{6}\b', address): six digits with no word character on
\* either side
PinPatternFound(address) ==
    \E i \in 1..(Len(address) - 5) :
        /\ \A k \in i..(i + 5) : IsDigitChar(Char(address, k))
        /\ i = 1 \/ ~IsWordChar(Char(address, i - 1))
        /\ i + 5 = Len(address) \/ ~IsWordChar(Char(address, i + 6))

\* re.match(r'^[6-9]\d{9}$', contact)
MobilePatternMatches(contact) ==
    /\ Len(contact) = 10
    /\ Char(contact, 1) \in {"6", "7", "8", "9"}
    /\ \A i \in 1..Len(contact) : IsDigitChar(Char(contact, i))

IsEmailLocalChar(c) ==
    IsLetterChar(c) \/ IsDigitChar(c) \/ c \in {".", "_", "%", "+", "-"}
IsEmailDomainChar(c) == IsLetterChar(c) \/ IsDigitChar(c) \/ c \in {".", "-"}

\* re.match(r'^[a-zA-Z0-9._%+-]+@[a-zA-Z0-9.-]+\.[a-zA-Z]{2,}$', contact)
EmailPatternMatches(contact) ==
    \E at \in 2..Len(contact) : \E dot \in (at + 2)..(Len(contact) - 2) :
        /\ Char(contact, at) = "@"
        /\ Char(contact, dot) = "."
        /\ \A i \in 1..(at - 1) : IsEmailLocalChar(Char(contact, i))
        /\ \A i \in (at + 1)..(dot - 1) : IsEmailDomainChar(Char(contact, i))
        /\ \A i \in (dot + 1)..Len(contact) : IsLetterChar(Char(contact, i))

\* any(word in text for word in words)
AnyIn(words, text) == \E w \in words : Contains(text, w)

\* ---- datetime ----
IsLeap(y) == (y % 4 = 0 /\ y % 100 # 0) \/ y % 400 = 0

DaysInMonth(y, m) ==
    IF m = 2 THEN (IF IsLeap(y) THEN 29 ELSE 28)
    ELSE IF m \in {4, 6, 9, 11} THEN 30 ELSE 31

RECURSIVE DaysBeforeMonth(_, _)
DaysBeforeMonth(y, m) ==
    IF m = 1 THEN 0 ELSE DaysBeforeMonth(y, m - 1) + DaysInMonth(y, m - 1)

\* date.toordinal(): days since 0001-01-01, that day being 1
ToOrdinal(y, m, d) ==
    LET p == y - 1
    IN  (p * 365) + (p \div 4) - (p \div 100) + (p \div 400)
            + DaysBeforeMonth(y, m) + d

\* the positions of the '-' characters of a text
Dashes(s) == {i \in 1..Len(s) : Char(s, i) = "-"}

\* datetime.strptime(text, '%Y-%m-%d'): four digits, one or two digits,
\* one or two digits, naming a day of the calendar; else ValueError
Strptime(text) ==
    LET bad == [ ok |-> FALSE, ordinal |-> 0 ]
    IN  IF Cardinality(Dashes(text)) # 2 THEN bad
        ELSE LET d1 == CHOOSE i \in Dashes(text) : \A j \in Dashes(text) : i <= j
                 d2 == CHOOSE i \in Dashes(text) : \A j \in Dashes(text) : j <= i
                 ys == SubSeq(text, 1, d1 - 1)
                 ms == SubSeq(text, d1 + 1, d2 - 1)
                 ds == SubSeq(text, d2 + 1, Len(text))
             IN  IF ~(/\ IsDigits(ys) /\ Len(ys) = 4
                      /\ IsDigits(ms) /\ Len(ms) <= 2
                      /\ IsDigits(ds) /\ Len(ds) <= 2)
                 THEN bad
                 ELSE LET y == DigitsValue(ys)
                          m == DigitsValue(ms)
                          d == DigitsValue(ds)
                      IN  IF /\ y >= 1
                             /\ m \in 1..12
                             /\ d >= 1 /\ d <= DaysInMonth(y, m)
                          THEN [ ok |-> TRUE, ordinal |-> ToOrdinal(y, m, d) ]
                          ELSE bad

\* ---- the finding lists ----
NoFindings ==
    [ errors |-> <<>>, warnings |-> <<>>, blocking_issues |-> <<>>,
      suggestions |-> <<>> ]

\* a slip: reset() forgets the warnings
ResetFindings_KeepsWarnings(self) ==
    [ errors |-> <<>>, warnings |-> self.warnings, blocking_issues |-> <<>>,
      suggestions |-> <<>> ]

\* reset(): the four lists of the validator self, emptied
ResetFindings(self) ==
    [ errors |-> <<>>, warnings |-> <<>>, blocking_issues |-> <<>>,
      suggestions |-> <<>> ]

AddError(v, msg) == [v EXCEPT !.errors = Append(@, msg)]
AddWarning(v, msg) == [v EXCEPT !.warnings = Append(@, msg)]
AddBlocking(v, msg) == [v EXCEPT !.blocking_issues = Append(@, msg)]
AddSuggestion(v, msg) == [v EXCEPT !.suggestions = Append(@, msg)]

\* v when the condition is false, else v with the finding added
When(cond, v, added) == IF cond THEN added ELSE v

INDIAN_STATES ==
    { "Andhra Pradesh", "Arunachal Pradesh", "Assam", "Bihar", "Chhattisgarh",
      "Goa", "Gujarat", "Haryana", "Himachal Pradesh", "Jharkhand",
      "Karnataka", "Kerala", "Madhya Pradesh", "Maharashtra", "Manipur",
      "Meghalaya", "Mizoram", "Nagaland", "Odisha", "Punjab", "Rajasthan",
      "Sikkim", "Tamil Nadu", "Telangana", "Tripura", "Uttar Pradesh",
      "Uttarakhand", "West Bengal", "Delhi", "Jammu and Kashmir", "Ladakh" }

\* the key is absent from user_data
KeyAbsent(d, field) == field \notin DOMAIN d

\* bool(user_data.get(field))
Truthy(d, field) ==
    /\ field \in DOMAIN d
    /\ IF field = "bpl" THEN d[field] ELSE Len(d[field]) > 0

\* user_data.get('state', 'Maharashtra')
DefaultState == "Maharashtra"
StateOrDefault(d) == IF KeyAbsent(d, "state") THEN DefaultState ELSE d.state

\* user_data.get('state'), None when absent
StateOrNone(d) == IF KeyAbsent(d, "state") THEN None ELSE d.state

\* _validate_name
ValidateName(v, name, field_name) ==
    LET v1 == When(Len(name) < 3, v,
                   AddError(v, field_name \o " must be at least 3 characters"))
        v2 == When(~NamePatternMatches(name), v1,
                   AddWarning(v1, field_name \o " contains special characters. Legal documents typically use only letters"))
    IN  When(IsUpper(name) \/ IsLower(name), v2,
             AddSuggestion(v2, "Use proper capitalization for " \o field_name
                                   \o " (e.g., 'Rajesh Kumar')"))

\* _validate_address
ValidateAddress(v, address) ==
    LET v1 == When(Len(address) < 15, v,
                   AddWarning(v, "Address seems very short. Provide complete address including house/flat number, street, city, and PIN code"))
        v2 == When(~PinPatternFound(address), v1,
                   AddWarning(v1, "Address should include 6-digit PIN code"))
    IN  When(Len(address) < 30, v2,
             AddSuggestion(v2, "Recommended address format: 'House No., Street/Area, City, State - PIN'"))

\* _validate_state_jurisdiction; its return value is used by no caller
ValidateStateJurisdiction(v, state, jur) ==
    IF state \notin INDIAN_STATES
    THEN AddSuggestion(
             AddError(v, "'" \o state \o "' is not a valid Indian state/UT"),
             "Did you mean one of: Maharashtra, Karnataka, Delhi, Gujarat, Tamil Nadu?")
    ELSE When(state \notin DOMAIN jur, v,
              AddSuggestion(
                  AddWarning(v, "Limited jurisdiction data for " \o state
                                    \o ". Using default rules"),
                  "For best results, use: Maharashtra, Karnataka, Delhi, Gujarat, Tamil Nadu, UP, West Bengal, or Rajasthan"))

\* _validate_authority_name
ValidateAuthorityName(v, authority) ==
    LET v1 == When(Len(authority) < 5, v,
                   AddError(v, "Authority/Department name is too short"))
    IN  When(AnyIn({"Corp", "Dept", "Off"}, authority), v1,
             AddSuggestion(v1, "Use full authority name (e.g., 'Municipal Corporation' not 'Muncipal Corp')"))

BriefInfoLength == 30
LongInfoLength == 3000
MaxQuestionMarks == 2

\* _validate_information_request
ValidateInformationRequest(v, info_text) ==
    LET info_length == Len(Strip(info_text))
        info_lower == Lower(info_text)
        v1 == When(info_length < BriefInfoLength, v,
                   AddSuggestion(
                       AddWarning(v, "Information request is very brief. Be more specific for better results"),
                       "Include: specific documents, time periods, file numbers, departments"))
        v2 == When(info_length > LongInfoLength, v1,
                   AddWarning(v1, "Request is very long. Consider breaking into multiple applications"))
        v3 == When(~AnyIn({"copy of", "details of", "list of",
                           "information regarding"}, info_lower), v2,
                   AddSuggestion(v2, "Start with specific phrases: 'Copy of...', 'Details of...', 'List of...'"))
        has_time_period ==
            AnyIn({"year", "month", "period", "from", "to", "during", "2020",
                   "2021", "2022", "2023", "2024", "2025"}, info_lower)
        v4 == When(~has_time_period, v3,
                   AddSuggestion(
                       AddWarning(v3, "No time period specified. Specify date range for better clarity"),
                       "Example: 'from January 2023 to December 2023' or 'for financial year 2023-24'"))
    IN  When(CountChar(info_text, "?") > MaxQuestionMarks, v4,
             AddSuggestion(
                 AddWarning(v4, "RTI is for information/documents, not for answering questions"),
                 "Instead of 'Why was X done?', request 'Copy of file noting explaining decision on X'"))

\* _validate_contact
ValidateContact(v, contact_text) ==
    LET contact == Strip(contact_text)
    IN  When(~(MobilePatternMatches(contact) \/ EmailPatternMatches(contact)),
             v,
             AddWarning(v, "Contact should be valid 10-digit mobile (starting with 6-9) or email"))

\* _validate_bpl_details
ValidateBplDetails(v, d, state, jur) ==
    LET v1 == When(~Truthy(d, "bpl_card_number"), v,
                   AddSuggestion(
                       AddWarning(v, "BPL applicants should provide BPL card number for verification"),
                       "Add BPL card number to avoid fee payment issues"))
    IN  When(/\ state # None /\ Len(state) > 0 /\ state \in DOMAIN jur
             /\ ~jur[state].rti_rules.bpl_exemption,
             v1,
             AddWarning(v1, state \o " may not offer BPL fee exemption. Verify with local rules"))

\* the first keyword of a category's list that occurs in the text, 0 if none
FirstKeyword(keywords, info_lower) ==
    IF \E i \in 1..Len(keywords) : Contains(info_lower, Lower(keywords[i]))
    THEN CHOOSE i \in 1..Len(keywords) :
            /\ Contains(info_lower, Lower(keywords[i]))
            /\ \A j \in 1..(i - 1) : ~Contains(info_lower, Lower(keywords[j]))
    ELSE 0

RECURSIVE DetectIssues(_, _, _)
\* the loop of _check_section_8_compliance over the first n categories:
\* the detected issues and the findings after it
DetectIssues(cats, info_lower, n) ==
    IF n = 0 THEN <<>>
    ELSE LET before == DetectIssues(cats, info_lower, n - 1)
             cat == cats[n]
             k == FirstKeyword(cat.keywords, info_lower)
         IN  IF k # 0 /\ cat.info.section_8_exempt
             THEN Append(before, [ category |-> cat.info.name,
                                   exemption |-> cat.info.exemption_reference,
                                   keyword |-> cat.keywords[k],
                                   block_generation |-> cat.info.block_generation,
                                   block_message |-> cat.info.block_message ])
             ELSE before

RECURSIVE AddIssueBlocks(_, _, _)
AddIssueBlocks(v, issues, n) ==
    IF n = 0 THEN v
    ELSE LET before == AddIssueBlocks(v, issues, n - 1)
         IN  When(issues[n].block_generation, before,
                  AddBlocking(before, "Request likely to be REJECTED: "
                                          \o issues[n].block_message))

RECURSIVE AddIssueWarnings(_, _, _)
AddIssueWarnings(v, issues, n) ==
    IF n = 0 THEN v
    ELSE AddWarning(AddIssueWarnings(v, issues, n - 1),
                    "   - " \o issues[n].category \o " (" \o issues[n].exemption
                        \o ") - keyword: '" \o issues[n].keyword \o "'")

\* _check_section_8_compliance
CheckSection8Compliance(v, info_text, cats) ==
    IF Len(cats) = 0 THEN v
    ELSE LET issues == DetectIssues(cats, Lower(info_text), Len(cats))
             v1 == AddIssueBlocks(v, issues, Len(issues))
         IN  IF Len(issues) = 0 THEN v1
             ELSE AddSuggestion(
                      AddIssueWarnings(
                          AddWarning(v1, "Detected " \o IntStr(Len(issues))
                                 \o " potential exemption(s) under RTI Act:"),
                          issues, Len(issues)),
                      "Review Section 8 & 9 of RTI Act. Consider narrowing request to non-exempt aspects")

MaxDaysOld == 90

\* _validate_date_consistency; now is the ordinal of the day of datetime.now()
ValidateDateConsistency(v, application_date, now) ==
    LET app_date == Strptime(application_date)
    IN  IF ~app_date.ok
        THEN AddError(v, "Invalid date format. Use YYYY-MM-DD")
        ELSE LET v1 == When(app_date.ordinal > now, v,
                            AddError(v, "Application date cannot be in the future"))
                 days_old == now - app_date.ordinal
             IN  When(days_old > MaxDaysOld, v1,
                      AddWarning(v1, "Application date is " \o IntStr(days_old)
                             \o " days old. RTI must be filed within reasonable time"))

MinAge == 1
MaxAge == 120
DefaultGuardianAgeLimit == 18

\* a slip: an age equal to the limit still needs a guardian
ValidateAgeForAffidavit_OffByOne(v, age, state, jur) ==
    LET age_int == PyInt(age)
    IN  IF ~age_int.ok
        THEN [ v |-> AddError(v, "Age must be a valid number"),
               age_valid |-> FALSE, guardian_needed |-> FALSE ]
        ELSE IF age_int.value < MinAge \/ age_int.value > MaxAge
        THEN [ v |-> AddError(v, "Invalid age. Must be between 1 and 120"),
               age_valid |-> FALSE, guardian_needed |-> FALSE ]
        ELSE LET rules == IF state \in DOMAIN jur
                          THEN jur[state].affidavit_rules ELSE <<>>
                 guardian_age_limit ==
                     IF state \in DOMAIN jur
                        /\ "guardian_age_limit" \in DOMAIN rules
                     THEN rules.guardian_age_limit
                     ELSE DefaultGuardianAgeLimit
                 guardian_needed == age_int.value <= guardian_age_limit
             IN  [ v |-> When(guardian_needed, v,
                              AddSuggestion(
                                  AddWarning(v, "Deponent is minor (age "
                                      \o IntStr(age_int.value)
                                      \o "). Guardian details are REQUIRED"),
                                  "Provide guardian's name, age, and father's name")),
                   age_valid |-> TRUE, guardian_needed |-> guardian_needed ]

\* _validate_age_for_affidavit
ValidateAgeForAffidavit(v, age, state, jur) ==
    LET age_int == PyInt(age)
    IN  IF ~age_int.ok
        THEN [ v |-> AddError(v, "Age must be a valid number"),
               age_valid |-> FALSE, guardian_needed |-> FALSE ]
        ELSE IF age_int.value < MinAge \/ age_int.value > MaxAge
        THEN [ v |-> AddError(v, "Invalid age. Must be between 1 and 120"),
               age_valid |-> FALSE, guardian_needed |-> FALSE ]
        ELSE LET rules == IF state \in DOMAIN jur
                          THEN jur[state].affidavit_rules ELSE <<>>
                 guardian_age_limit ==
                     IF state \in DOMAIN jur
                        /\ "guardian_age_limit" \in DOMAIN rules
                     THEN rules.guardian_age_limit
                     ELSE DefaultGuardianAgeLimit
                 guardian_needed == age_int.value < guardian_age_limit
             IN  [ v |-> When(guardian_needed, v,
                              AddSuggestion(
                                  AddWarning(v, "Deponent is minor (age "
                                      \o IntStr(age_int.value)
                                      \o "). Guardian details are REQUIRED"),
                                  "Provide guardian's name, age, and father's name")),
                   age_valid |-> TRUE, guardian_needed |-> guardian_needed ]

MinStatementLength == 10
ManyStatements == 30

\* the body of the loop of _validate_affidavit_statements for statement i
ValidateStatement(v, i, statement) ==
    IF Len(Strip(statement)) = 0
    THEN AddError(v, "Statement " \o IntStr(i) \o " is empty")
    ELSE LET low == Lower(statement)
             v1 == When(Len(statement) < MinStatementLength, v,
                        AddWarning(v, "Statement " \o IntStr(i)
                                          \o " is very brief. Be more specific"))
             v2 == When(AnyIn({"think", "believe", "feel", "probably", "maybe",
                               "might", "could be"}, low), v1,
                        AddSuggestion(
                            AddWarning(v1, "Statement " \o IntStr(i)
                                \o " contains opinion words. Affidavits should state facts only"),
                            "Statement " \o IntStr(i)
                                \o ": Replace opinions with factual statements"))
             v3 == When(AnyIn({"i heard", "someone told", "it is said",
                               "people say", "rumor"}, low), v2,
                        AddWarning(v2, "Statement " \o IntStr(i)
                            \o " may be based on hearsay. Use direct knowledge only"))
         IN  When(~StartsWith(Strip(low), "that"), v3,
                  AddSuggestion(v3, "Statement " \o IntStr(i)
                      \o ": Should start with 'that' as per legal format"))

RECURSIVE ValidateStatementsUpTo(_, _, _)
ValidateStatementsUpTo(v, statements, n) ==
    IF n = 0 THEN v
    ELSE ValidateStatement(ValidateStatementsUpTo(v, statements, n - 1),
                           n, statements[n])

\* _validate_affidavit_statements
ValidateAffidavitStatements(v, statements) ==
    IF Len(statements) = 0
    THEN AddError(v, "Affidavit must contain at least one statement")
    ELSE ValidateStatementsUpTo(
             When(Len(statements) > ManyStatements, v,
                  AddWarning(v, "Affidavit has many statements. Consider creating multiple affidavits if unrelated")),
             statements, Len(statements))

\* _check_stamp_requirements
CheckStampRequirements(v, state, jur) ==
    IF state \in DOMAIN jur /\ jur[state].affidavit_rules.stamp_mandatory
    THEN AddSuggestion(v, state \o " requires affidavit on stamp paper of Rs. "
             \o IntStr(jur[state].affidavit_rules.stamp_paper_value)
             \o "/-. This will be noted in the generated document")
    ELSE v

RtiRequiredFields ==
    <<"name", "address", "state", "authority", "pio_address", "info">>
AffidavitRequiredFields ==
    <<"deponent_name", "age", "father_name", "address", "statements">>

\* `not user_data.get(field) or not str(user_data[field]).strip()`
RtiFieldMissing(d, field) == ~Truthy(d, field) \/ Len(Strip(d[field])) = 0

\* `field not in user_data or not user_data[field]`
AffidavitFieldMissing(d, field) == ~Truthy(d, field)

\* a slip: the loop stops at the first missing field
RequiredFieldErrors_FirstOnly(v, fields, missing, n) ==
    LET lacking == {i \in 1..n : fields[i] \in missing}
    IN  IF lacking = {} THEN v
        ELSE AddError(v, "Missing required field: "
                         \o fields[CHOOSE i \in lacking :
                                       \A j \in lacking : i <= j])

RECURSIVE RequiredFieldErrors(_, _, _, _)
\* the required-field loop over the first n fields; missing is the set of
\* the fields for which the loop's test is true
RequiredFieldErrors(v, fields, missing, n) ==
    IF n = 0 THEN v
    ELSE LET before == RequiredFieldErrors(v, fields, missing, n - 1)
         IN  When(fields[n] \in missing, before,
                  AddError(before, "Missing required field: " \o fields[n]))

\* a slip: only the blocking issues decide
Passed_BlockingOnly(v) == Len(v.blocking_issues) = 0

\* the return expression of both validate methods
Passed(v) == Len(v.blocking_issues) = 0 /\ Len(v.errors) = 0

\* lines 69-73 of validate_rti_application: the required-field loop, on the
\* lists v
RtiRequiredStep(v, d) ==
    LET missing == {f \in {RtiRequiredFields[i] :
                        i \in 1..Len(RtiRequiredFields)} :
                        RtiFieldMissing(d, f)}
    IN  RequiredFieldErrors(v, RtiRequiredFields, missing,
                            Len(RtiRequiredFields))

\* lines 75-110 of validate_rti_application, on the lists v0 the loop left:
\* the findings and the value returned
RtiChecks(v0, d, jur, cats, now) ==
        IF Len(v0.errors) > 0 THEN [ v |-> v0, returned |-> FALSE ]
        ELSE LET v1 == ValidateName(v0, d.name, "Applicant Name")
                 v2 == ValidateAddress(v1, d.address)
                 v3 == ValidateStateJurisdiction(v2, d.state, jur)
                 v4 == ValidateAuthorityName(v3, d.authority)
                 v5 == ValidateInformationRequest(v4, d.info)
                 v6 == When(Truthy(d, "contact"), v5,
                            ValidateContact(v5, d.contact))
                 v7 == When(Truthy(d, "bpl"), v6,
                            ValidateBplDetails(v6, d, StateOrNone(d), jur))
                 v8 == CheckSection8Compliance(v7, d.info, cats)
                 v9 == When(Truthy(d, "application_date"), v8,
                            ValidateDateConsistency(v8, d.application_date, now))
             IN  [ v |-> v9, returned |-> Passed(v9) ]

\* validate_rti_application on the validator whose lists are self: the
\* findings and the value returned
ValidateRtiApplicationOn(self, d, jur, cats, now) ==
    RtiChecks(RtiRequiredStep(ResetFindings(self), d), d, jur, cats, now)

GuardianMinAge == 18

\* a slip: a missing guardian name is an error like the other two
ValidateGuardian_NameErrorOnly(v, d) ==
    LET v1 == When(~Truthy(d, "guardian_name"), v,
                   AddError(v, "Guardian name is required for minor deponents"))
        v2 == When(~Truthy(d, "guardian_age"), v1,
                   AddError(v1, "Guardian age is required"))
        v3 == When(~Truthy(d, "guardian_father_name"), v2,
                   AddError(v2, "Guardian's father's name is required"))
    IN  IF ~Truthy(d, "guardian_age") THEN v3
        ELSE LET g_age == PyInt(d.guardian_age)
             IN  IF ~g_age.ok
                 THEN AddError(v3, "Guardian age must be a valid number")
                 ELSE When(g_age.value < GuardianMinAge, v3,
                           AddBlocking(v3, "Guardian must be at least 18 years old"))

\* lines 135-155 of validate_affidavit: the guardian's details
ValidateGuardian(v, d) ==
    LET v1 == When(~Truthy(d, "guardian_name"), v,
                   AddError(
                       AddBlocking(v, "Deponent is minor (under 18). Guardian details are MANDATORY."),
                       "Guardian name is required for minor deponents"))
        v2 == When(~Truthy(d, "guardian_age"), v1,
                   AddError(v1, "Guardian age is required"))
        v3 == When(~Truthy(d, "guardian_father_name"), v2,
                   AddError(v2, "Guardian's father's name is required"))
    IN  IF ~Truthy(d, "guardian_age") THEN v3
        ELSE LET g_age == PyInt(d.guardian_age)
             IN  IF ~g_age.ok
                 THEN AddError(v3, "Guardian age must be a valid number")
                 ELSE When(g_age.value < GuardianMinAge, v3,
                           AddBlocking(v3, "Guardian must be at least 18 years old"))

\* lines 116-120 of validate_affidavit: the required-field loop, on the
\* lists v
AffidavitRequiredStep(v, d) ==
    LET missing == {f \in {AffidavitRequiredFields[i] :
                        i \in 1..Len(AffidavitRequiredFields)} :
                        AffidavitFieldMissing(d, f)}
    IN  RequiredFieldErrors(v, AffidavitRequiredFields, missing,
                            Len(AffidavitRequiredFields))

\* lines 122-175 of validate_affidavit, on the lists v0 the loop left
AffidavitChecks(v0, d, jur) ==
        IF Len(v0.errors) > 0 THEN [ v |-> v0, returned |-> FALSE ]
        ELSE LET aged == ValidateAgeForAffidavit(v0, d.age, StateOrDefault(d), jur)
             IN  IF ~aged.age_valid THEN [ v |-> aged.v, returned |-> FALSE ]
                 ELSE LET v1 == When(aged.guardian_needed, aged.v,
                                     ValidateGuardian(aged.v, d))
                          v2 == ValidateName(v1, d.deponent_name, "Deponent Name")
                          v3 == ValidateName(v2, d.father_name,
                                             "Father's/Husband's Name")
                          v4 == When(aged.guardian_needed /\ Truthy(d, "guardian_name"),
                                     v3,
                                     ValidateName(v3, d.guardian_name, "Guardian Name"))
                          v5 == ValidateAddress(v4, d.address)
                          v6 == ValidateAffidavitStatements(v5, d.statements)
                          v7 == When(Truthy(d, "state"), v6,
                                     CheckStampRequirements(
                                         ValidateStateJurisdiction(v6, d.state, jur),
                                         d.state, jur))
                      IN  [ v |-> v7, returned |-> Passed(v7) ]

\* validate_affidavit on the validator whose lists are self
ValidateAffidavitOn(self, d, jur) ==
    AffidavitChecks(AffidavitRequiredStep(ResetFindings(self), d), d, jur)

\* a slip: only the blocking issues block
HasBlockingIssues_BlockingOnly(blocking, errs) == Len(blocking) > 0

\* has_blocking_issues
HasBlockingIssues(blocking, errs) == Len(blocking) > 0 \/ Len(errs) > 0

\* ---- what the validator is constructed with and called on ----
\* jurisdiction_profiles.json as load_jurisdiction_profiles leaves it in
\* self.jurisdictions: {} when the file cannot be read
MaharashtraProfile(limits, stamp_mandatory, bpl_exemption) ==
    [ rti_rules |-> [ bpl_exemption |-> bpl_exemption ],
      affidavit_rules |->
          IF limits = <<>>
          THEN [ stamp_mandatory |-> stamp_mandatory, stamp_paper_value |-> 100 ]
          ELSE [ stamp_mandatory |-> stamp_mandatory, stamp_paper_value |-> 100,
                 guardian_age_limit |-> limits[1] ] ]

NoProfiles == [ s \in {} |-> 0 ]

JurisdictionFiles ==
    { NoProfiles,
      [ s \in {"Maharashtra"} |-> MaharashtraProfile(<<>>, FALSE, TRUE) ],
      [ s \in {"Maharashtra"} |-> MaharashtraProfile(<<16>>, TRUE, FALSE) ],
      [ s \in {"Maharashtra"} |-> MaharashtraProfile(<<21>>, TRUE, TRUE) ] }

\* rti_categories.json as load_rti_categories leaves it in
\* self.rti_categories, the categories in the file's order: empty when the
\* file cannot be read
CategoryFiles ==
    { <<>>,
      << [ category |-> "defence",
           keywords |-> <<"Defence", "army">>,
           info |-> [ name |-> "National Security", section_8_exempt |-> TRUE,
                      exemption_reference |-> "Section 8(1)(a)",
                      block_generation |-> TRUE,
                      block_message |-> "National security information" ] ],
         [ category |-> "personal",
           keywords |-> <<"salary">>,
           info |-> [ name |-> "Personal Information", section_8_exempt |-> TRUE,
                      exemption_reference |-> "Section 8(1)(j)",
                      block_generation |-> FALSE,
                      block_message |-> "" ] ],
         [ category |-> "tender",
           keywords |-> <<"audit">>,
           info |-> [ name |-> "Tenders", section_8_exempt |-> FALSE,
                      exemption_reference |-> "",
                      block_generation |-> FALSE,
                      block_message |-> "" ] ] >> }

\* the day of datetime.now(): 2024-03-15
Today == ToOrdinal(2024, 3, 15)

\* a dict from a choice, per key, of <<>> (the key is absent) or <<value>>
FromOptions(opt) ==
    [ f \in {g \in DOMAIN opt : opt[g] # <<>>} |-> opt[f][1] ]

Statement == "that I live in Pune"

StatementLists ==
    { <<>>, <<" ">>, <<Statement>>, <<Statement, " ">>,
      <<"I think so", Statement>> }

AffidavitInputs ==
    { FromOptions(o) : o \in
        [ deponent_name : {<<>>, <<"Al">>, <<"Asha Rao">>},
          age : {<<"abc">>, <<"0">>, <<"17">>, <<"18">>, <<"121">>},
          father_name : {<<"">>, <<"Ram Rao">>},
          address : {<<"Pune 411001">>, <<"12 MG Road, Shivajinagar, Pune">>},
          statements : {<<s>> : s \in StatementLists},
          state : {<<>>, <<"Maharashtra">>, <<"Goa">>, <<"Atlantis">>},
          guardian_name : {<<>>, <<"Sita Rao">>},
          guardian_age : {<<>>, <<"17">>, <<"40">>},
          guardian_father_name : {<<>>, <<"Hari Rao">>} ] }

RtiInputs ==
    { FromOptions(o) : o \in
        [ name : {<<>>, <<"Al">>, <<"Asha Rao">>},
          address : {<<"Pune 411001">>},
          state : {<<" ">>, <<"Maharashtra">>, <<"Atlantis">>},
          authority : {<<"PWD">>, <<"Municipal Corporation">>},
          pio_address : {<<"PIO Office, Pune">>},
          info : {<<"Copy of audit report from 2023">>,
                  <<"Why? Why so? Why not salary?">>,
                  <<"details of DEFENCE plans">>},
          contact : {<<>>, <<"9876543210">>, <<"asha@mail.in">>, <<"12345">>},
          bpl : {<<>>, <<TRUE>>},
          bpl_card_number : {<<>>, <<"BPL123">>},
          application_date : {<<>>, <<"2024-03-15">>, <<"2024-03-16">>,
                              <<"2023-03-15">>, <<"2024-02-30">>} ] }

ValidatorIdle ==
    /\ user_data = FromOptions([ x \in {} |-> <<>> ])
    /\ jurisdictions = NoProfiles
    /\ rti_categories = <<>>
    /\ errors = <<>> /\ warnings = <<>>
    /\ blocking_issues = <<>> /\ suggestions = <<>>
    /\ returned = None
    /\ last_call = None

\* no sequence of calls has begun
SequenceIdle == earlier = NoFindings

\* no request is running
RequestsIdle == requests = <<>>

\* _select_clarification_questions has not been called on its own
NotSelected == [ returned |-> FALSE, questions |-> <<>> ]
QuestionsIdle ==
    /\ question_args = [ description |-> "", scores |-> <<>> ]
    /\ selection = NotSelected

\* ---- DocumentLifecycle ----
\* a dict with no key
EmptyDict == [ x \in {} |-> <<>> ]

\* the keys of STATES
STATES ==
    { "DRAFTED", "SUBMITTED", "ACKNOWLEDGED", "REPLY_RECEIVED", "APPEAL_FILED",
      "CLOSED" }

ReplyDeadlineDays == 30
FirstAppealDays == 30
DefaultNoticePeriodDays == 15

\* _calculate_deadlines, the dates left out: the day counts it returns
CalculateDeadlines(doc_type, metadata) ==
    IF doc_type = "RTI_Application"
    THEN [ reply_deadline_days |-> ReplyDeadlineDays,
           first_appeal_days |-> FirstAppealDays ]
    ELSE IF doc_type = "Legal_Notice"
    THEN [ response_deadline_days |->
               IF "notice_period_days" \in DOMAIN metadata
               THEN metadata.notice_period_days
               ELSE DefaultNoticePeriodDays ]
    ELSE EmptyDict

\* the record create_lifecycle and save_lifecycle store for a document, the
\* timestamps left out
NewLifecycle(doc_type, metadata, deadlines) ==
    [ document_type |-> doc_type,
      current_state |-> "DRAFTED",
      state_history |-> << [ state |-> "DRAFTED",
                             notes |-> "Document generated" ] >>,
      metadata |-> metadata,
      deadlines |-> deadlines ]

\* d[key] = value on a dict d
DictSet(d, key, value) ==
    [ k \in DOMAIN d \cup {key} |-> IF k = key THEN value ELSE d[k] ]

\* NyaySetuDB.save_lifecycle: an upsert that sets every field of the record
\* of doc_hash; a failure is printed and changes nothing
SaveLifecycle(db, doc_hash, doc_type, metadata, deadlines, db_ok) ==
    IF db_ok THEN DictSet(db, doc_hash, NewLifecycle(doc_type, metadata, deadlines))
    ELSE db

\* NyaySetuDB.get_lifecycles: the collection by hash, {} when the query fails
GetLifecycles(db, db_ok) == IF db_ok THEN db ELSE EmptyDict

\* how no call ended
NoLifecycleCall ==
    [ op |-> "none", doc_hash |-> "", raised |-> FALSE, returned |-> FALSE,
      deadlines |-> EmptyDict ]

\* no lifecycle manager is in use
LifecyclesIdle ==
    /\ db_client = FALSE
    /\ db_lifecycles = EmptyDict
    /\ lifecycles = EmptyDict
    /\ lifecycle_call = NoLifecycleCall

OthersIdle == SequenceIdle /\ RequestsIdle /\ QuestionsIdle /\ LifecyclesIdle

-----------------------------------------------------------------------------
(***************************************************************************)
(* The generation flows: generate_rti and generate_affidavit of the CLI    *)
(* (nyaysetu_main.py) and the two generate endpoints of the HTTP API       *)
(* (app.py).  A generator is handed a dict and renders it.                 *)
(***************************************************************************)
InfoTexts ==
    { "Copy of audit report from 2023", "list of salary slips for the year 2023",
      "details of DEFENCE plans" }

\* user_data as the prompts of generate_rti fill it
CliRtiInputs ==
    { FromOptions(o) : o \in
        [ name : {<<"Al">>, <<"Asha Rao">>},
          address : {<<"Pune 411001">>},
          state : {<<"Maharashtra">>, <<"Atlantis">>},
          contact : {<<"9876543210">>},
          email : {<<"">>},
          authority : {<<"Municipal Corporation">>},
          pio_address : {<<"PIO Office, Pune">>},
          reference_number : {<<"">>},
          info : {<<t>> : t \in InfoTexts},
          bpl : {<<FALSE>>},
          format_preference : {<<"electronic">>} ] }

\* user_data as the prompts of generate_affidavit fill it: the guardian is
\* asked for when int(age) < 18
CliAffidavitInputs ==
    { FromOptions(o) : o \in
        [ deponent_name : {<<"Al">>, <<"Asha Rao">>},
          age : {<<"40">>},
          father_name : {<<"Ram Rao">>},
          gender : {<<"female">>},
          address : {<<"Pune 411001">>},
          state : {<<"Maharashtra">>, <<"">>},
          statements : {<< <<>> >>, << <<Statement>> >>} ] }
    \cup
    { FromOptions(o) : o \in
        [ deponent_name : {<<"Asha Rao">>},
          age : {<<"17">>},
          guardian_name : {<<"">>, <<"Sita Rao">>},
          guardian_age : {<<"17">>, <<"40">>},
          guardian_father_name : {<<"Hari Rao">>},
          father_name : {<<"Ram Rao">>},
          gender : {<<"female">>},
          address : {<<"Pune 411001">>},
          state : {<<"Maharashtra">>},
          statements : {<< <<Statement>> >>} ] }

\* the JSON bodies posted to /api/generate/rti
HttpRtiBodies ==
    { FromOptions(o) : o \in
        [ name : {<<"Al">>, <<"Asha Rao">>},
          address : {<<"Pune 411001">>},
          state : {<<>>, <<"Maharashtra">>, <<"Atlantis">>},
          authority : {<<"PWD">>, <<"Municipal Corporation">>},
          pio_address : {<<"PIO Office, Pune">>},
          info : {<<t>> : t \in InfoTexts} ] }

\* the JSON bodies posted to /api/generate/affidavit
HttpAffidavitBodies ==
    { FromOptions(o) : o \in
        [ deponent_name : {<<>>, <<"Al">>, <<"Asha Rao">>},
          age : {<<>>, <<"17">>, <<"40">>},
          father_name : {<<>>, <<"Ram Rao">>},
          address : {<<"Pune 411001">>},
          statements : {<< <<>> >>, << <<Statement>> >>} ] }

\* datetime.now().strftime('%Y-%m-%d') on the day Today
TodayText == "2024-03-15"

\* JurisdictionManager.detect_rti_category: the categories one of whose
\* keywords occurs in the text
DetectRtiCategory(info_text, cats) ==
    { cats[i].category : i \in
        {j \in 1..Len(cats) : FirstKeyword(cats[j].keywords, Lower(info_text)) # 0} }

\* d with d[key] = value, the key added when it is absent
WithKey(d, key, value) ==
    [ f \in (DOMAIN d) \cup {key} |-> IF f = key THEN value ELSE d[f] ]

\* no flow has run
FlowsIdle ==
    /\ pc = "menu"
    /\ validated_data = <<>>
    /\ generated = <<>>
    /\ response = 0

\* the four lists of the validator, as they are
Findings ==
    [ errors |-> errors, warnings |-> warnings,
      blocking_issues |-> blocking_issues, suggestions |-> suggestions ]

\* the findings and the return value of a validate call, in the validator
Validator(run, method) ==
    /\ errors' = run.v.errors
    /\ warnings' = run.v.warnings
    /\ blocking_issues' = run.v.blocking_issues
    /\ suggestions' = run.v.suggestions
    /\ returned' = run.returned
    /\ last_call' = method

\* where a flow goes after its validate call: on, back to its start (retry)
\* or out (lines 189-200 and 407-418)
AfterValidation(run, start, on) ==
    IF run.returned THEN pc' = on
    ELSE IF HasBlockingIssues(run.v.blocking_issues, run.v.errors)
    THEN \E retry \in BOOLEAN : pc' = IF retry THEN start ELSE "menu"
    ELSE \E proceed \in BOOLEAN : pc' = IF proceed THEN on ELSE "menu"

HttpRtiRequired ==
    <<"name", "address", "state", "authority", "pio_address", "info">>
HttpAffidavitRequired == <<"deponent_name", "address", "statements">>

BadRequest == 400
Ok == 200

\* an endpoint's handler on the body `data`: 400 when a required key is
\* not in it, else the generator is called with it
HttpGenerate(data, required_fields) ==
    LET missing_fields ==
            {i \in 1..Len(required_fields) : required_fields[i] \notin DOMAIN data}
    IN  /\ validated_data' = <<>>
        /\ IF missing_fields # {}
           THEN generated' = <<>> /\ response' = BadRequest
           ELSE generated' = <<data>> /\ response' = Ok
        /\ UNCHANGED <<pc, vvars, cvars, tvars, ovars>>

-----------------------------------------------------------------------------
(***************************************************************************)
(* The classifier: one analyze_requirements call on each description.      *)
(***************************************************************************)
InitClassifier ==
    /\ description \in Descriptions \cup Scenarios
    /\ api_key \in BOOLEAN
    /\ groq_response = NotCalled
    /\ groq_calls = 0
    /\ scores = [t \in DocTypes |-> Num(0)]
    /\ locals = [ primary_doc |-> None, confidence |-> Num(0),
                  keyword_confidence |-> 0 ]
    /\ result = NoResult
    /\ TableIdle
    /\ ValidatorIdle
    /\ FlowsIdle
    /\ OthersIdle

\* the call analyze_requirements(description); the service is consulted,
\* and so answers, only on the path that reaches line 481
Analyze ==
    /\ result = NoResult
    /\ \E text \in {TextFacts(description)} :
         \E g \in (IF AnalyzeFrom(text, api_key, NotCalled).groq_calls = 0
                   THEN {NotCalled} ELSE GroqOutcomes) :
            \E run \in {AnalyzeFrom(text, api_key, g)} :
               /\ groq_response' = run.groq_response
               /\ groq_calls' = run.groq_calls
               /\ scores' = run.scores
               /\ locals' = run.locals
               /\ result' = run.result
               /\ UNCHANGED <<description, api_key, tvars, vvars, fvars,
                            ovars>>

NextClassifier == Analyze

SpecClassifier == InitClassifier /\ [][NextClassifier]_vars

-----------------------------------------------------------------------------
(***************************************************************************)
(* The validator: one validate call on each input, then reset.             *)
(***************************************************************************)
InitValidator ==
    /\ jurisdictions \in JurisdictionFiles
    /\ \/ user_data \in AffidavitInputs /\ rti_categories = <<>>
       \/ user_data \in RtiInputs /\ rti_categories \in CategoryFiles
    /\ errors = <<>> /\ warnings = <<>>
    /\ blocking_issues = <<>> /\ suggestions = <<>>
    /\ returned = None
    /\ last_call = None
    /\ ClassifierIdle
    /\ TableIdle
    /\ FlowsIdle
    /\ OthersIdle

\* validator.validate_rti_application(user_data)
ValidateRtiApplication ==
    /\ last_call = None
    /\ Validator(ValidateRtiApplicationOn(Findings, user_data, jurisdictions,
                                          rti_categories, Today),
                 "validate_rti_application")
    /\ UNCHANGED <<user_data, jurisdictions, rti_categories, cvars, tvars,
                   fvars, ovars>>

\* validator.validate_affidavit(user_data)
ValidateAffidavit ==
    /\ last_call = None
    /\ Validator(ValidateAffidavitOn(Findings, user_data, jurisdictions),
                 "validate_affidavit")
    /\ UNCHANGED <<user_data, jurisdictions, rti_categories, cvars, tvars,
                   fvars, ovars>>

\* validator.reset()
Reset ==
    /\ last_call \notin {None, "reset"}
    /\ errors' = <<>> /\ warnings' = <<>>
    /\ blocking_issues' = <<>> /\ suggestions' = <<>>
    /\ last_call' = "reset"
    /\ UNCHANGED <<user_data, jurisdictions, rti_categories, returned, cvars,
                   tvars, fvars, ovars>>

NextValidator == ValidateRtiApplication \/ ValidateAffidavit \/ Reset

SpecValidator == InitValidator /\ [][NextValidator]_vars

-----------------------------------------------------------------------------
(***************************************************************************)
(* The flows: the CLI menu loop and the HTTP endpoints.                    *)
(***************************************************************************)
InitFlows ==
    /\ FlowsIdle
    /\ user_data = FromOptions([ x \in {} |-> <<>> ])
    /\ jurisdictions \in JurisdictionFiles
    /\ rti_categories \in CategoryFiles \ {<<>>}
    /\ errors = <<>> /\ warnings = <<>>
    /\ blocking_issues = <<>> /\ suggestions = <<>>
    /\ returned = None
    /\ last_call = None
    /\ ClassifierIdle
    /\ TableIdle
    /\ OthersIdle

\* run(): the menu choices 1 and 2
ChooseFlow ==
    /\ pc = "menu"
    /\ pc' \in {"generate_rti", "generate_affidavit"}
    /\ UNCHANGED <<validated_data, generated, response, vvars, cvars, tvars, ovars>>

\* generate_rti, lines 83-183: the prompts
CliRtiCollect ==
    /\ pc = "generate_rti"
    /\ user_data' \in CliRtiInputs
    /\ validated_data' = <<>>
    /\ generated' = <<>>
    /\ pc' = "rti_validation"
    /\ UNCHANGED <<jurisdictions, rti_categories, errors, warnings,
                   blocking_issues, suggestions, returned, last_call, response,
                   cvars, tvars, ovars>>

\* generate_rti, lines 186-209: the validation phase
CliRtiValidate ==
    /\ pc = "rti_validation"
    /\ \E run \in {ValidateRtiApplicationOn(Findings, user_data, jurisdictions,
                                            rti_categories, Today)} :
          /\ Validator(run, "validate_rti_application")
          /\ AfterValidation(run, "generate_rti", "rti_compliance")
          /\ validated_data' = IF run.returned THEN <<user_data>> ELSE <<>>
    /\ UNCHANGED <<user_data, jurisdictions, rti_categories, generated,
                   response, cvars, tvars, ovars>>

\* generate_rti, lines 212-248: the compliance phase, in which the user may
\* type the request again
CliRtiCompliance ==
    /\ pc = "rti_compliance"
    /\ IF DetectRtiCategory(user_data.info, rti_categories) # {}
       THEN \E modify \in BOOLEAN :
               IF modify
               THEN \E info \in InfoTexts :
                       user_data' = [user_data EXCEPT !.info = info]
               ELSE UNCHANGED user_data
       ELSE UNCHANGED user_data
    /\ pc' = "rti_generation"
    /\ UNCHANGED <<jurisdictions, rti_categories, errors, warnings,
                   blocking_issues, suggestions, returned, last_call,
                   validated_data, generated, response, cvars, tvars, ovars>>

\* generate_rti, lines 251-263: the generation phase; a generator that
\* raises leaves no document
CliRtiGenerate ==
    /\ pc = "rti_generation"
    /\ user_data' = WithKey(user_data, "application_date", TodayText)
    /\ \E rendered \in BOOLEAN :
          generated' = IF rendered THEN <<user_data'>> ELSE <<>>
    /\ pc' = "menu"
    /\ UNCHANGED <<jurisdictions, rti_categories, errors, warnings,
                   blocking_issues, suggestions, returned, last_call,
                   validated_data, response, cvars, tvars, ovars>>

\* generate_affidavit, lines 318-400: the prompts
CliAffidavitCollect ==
    /\ pc = "generate_affidavit"
    /\ user_data' \in CliAffidavitInputs
    /\ validated_data' = <<>>
    /\ generated' = <<>>
    /\ pc' = "affidavit_validation"
    /\ UNCHANGED <<jurisdictions, rti_categories, errors, warnings,
                   blocking_issues, suggestions, returned, last_call, response,
                   cvars, tvars, ovars>>

\* generate_affidavit, lines 404-425: the validation
CliAffidavitValidate ==
    /\ pc = "affidavit_validation"
    /\ \E run \in {ValidateAffidavitOn(Findings, user_data, jurisdictions)} :
          /\ Validator(run, "validate_affidavit")
          /\ AfterValidation(run, "generate_affidavit", "affidavit_generation")
          /\ validated_data' = IF run.returned THEN <<user_data>> ELSE <<>>
    /\ UNCHANGED <<user_data, jurisdictions, rti_categories, generated,
                   response, cvars, tvars, ovars>>

\* generate_affidavit, lines 428-439: the generation
CliAffidavitGenerate ==
    /\ pc = "affidavit_generation"
    /\ \E rendered \in BOOLEAN :
          generated' = IF rendered THEN <<user_data>> ELSE <<>>
    /\ pc' = "menu"
    /\ UNCHANGED <<vvars, validated_data, response, cvars, tvars, ovars>>

\* POST /api/generate/rti
HttpGenerateRti ==
    /\ pc = "menu"
    /\ \E data \in HttpRtiBodies : HttpGenerate(data, HttpRtiRequired)

\* POST /api/generate/affidavit
HttpGenerateAffidavit ==
    /\ pc = "menu"
    /\ \E data \in HttpAffidavitBodies : HttpGenerate(data, HttpAffidavitRequired)

NextFlows ==
    \/ ChooseFlow
    \/ CliRtiCollect \/ CliRtiValidate \/ CliRtiCompliance \/ CliRtiGenerate
    \/ CliAffidavitCollect \/ CliAffidavitValidate \/ CliAffidavitGenerate
    \/ HttpGenerateRti \/ HttpGenerateAffidavit

SpecFlows == InitFlows /\ [][NextFlows]_vars

-----------------------------------------------------------------------------
(***************************************************************************)
(* The threshold table on its own: every pair of a score and a gap up to   *)
(* MaxScore.                                                               *)
(***************************************************************************)
InitTable ==
    /\ max_score \in 0..MaxScore
    /\ score_gap \in 0..MaxScore
    /\ confidence = 0
    /\ ClassifierIdle
    /\ ValidatorIdle
    /\ FlowsIdle
    /\ OthersIdle

\* lines 465-476 applied to max_score and score_gap
ComputeConfidence ==
    /\ confidence = 0
    /\ confidence' = KeywordConfidence(max_score, score_gap)
    /\ UNCHANGED <<max_score, score_gap, cvars, vvars, fvars, ovars>>

NextTable == ComputeConfidence

SpecTable == InitTable /\ [][NextTable]_vars

-----------------------------------------------------------------------------
(***************************************************************************)
(* One validator called again and again, as the CLI's menu loop calls      *)
(* self.validator with the input of each flow.                             *)
(***************************************************************************)
\* the affidavit inputs of the calls
SequenceAffidavitInputs ==
    { FromOptions(o) : o \in
        [ deponent_name : {<<"Asha Rao">>},
          age : {<<"17">>, <<"18">>},
          father_name : {<<"Ram Rao">>},
          address : {<<"Pune 411001">>},
          statements : {<<s>> : s \in {<<Statement>>, <<"I think so", Statement>>}},
          state : {<<"Maharashtra">>} ] }

\* the RTI inputs of the calls
SequenceRtiInputs ==
    { FromOptions(o) : o \in
        [ name : {<<"Al">>, <<"Asha Rao">>},
          address : {<<"Pune 411001">>},
          state : {<<"Maharashtra">>},
          authority : {<<"PWD">>},
          pio_address : {<<"PIO Office, Pune">>},
          info : {<<"Copy of audit report from 2023">>,
                  <<"details of DEFENCE plans">>} ] }

SequenceInputs == SequenceAffidavitInputs \cup SequenceRtiInputs

InitSequence ==
    /\ jurisdictions \in JurisdictionFiles
    /\ rti_categories \in CategoryFiles
    /\ user_data = FromOptions([ x \in {} |-> <<>> ])
    /\ errors = <<>> /\ warnings = <<>>
    /\ blocking_issues = <<>> /\ suggestions = <<>>
    /\ returned = None
    /\ last_call = None
    /\ SequenceIdle
    /\ RequestsIdle
    /\ QuestionsIdle
    /\ LifecyclesIdle
    /\ ClassifierIdle
    /\ TableIdle
    /\ FlowsIdle

\* the next call of the sequence: validator.validate_rti_application(d)
NextValidateRtiApplication ==
    \E d \in SequenceInputs :
        /\ user_data' = d
        /\ earlier' = Findings
        /\ Validator(ValidateRtiApplicationOn(Findings, d, jurisdictions,
                                              rti_categories, Today),
                     "validate_rti_application")
        /\ UNCHANGED <<jurisdictions, rti_categories, cvars, tvars, fvars,
                       ivars, qvars, lvars>>

\* the next call of the sequence: validator.validate_affidavit(d)
NextValidateAffidavit ==
    \E d \in SequenceInputs :
        /\ user_data' = d
        /\ earlier' = Findings
        /\ Validator(ValidateAffidavitOn(Findings, d, jurisdictions),
                     "validate_affidavit")
        /\ UNCHANGED <<jurisdictions, rti_categories, cvars, tvars, fvars,
                       ivars, qvars, lvars>>

NextSequence == NextValidateRtiApplication \/ NextValidateAffidavit

SpecSequence == InitSequence /\ [][NextSequence]_vars

-----------------------------------------------------------------------------
(***************************************************************************)
(* Two validation requests of one process on the validator they share      *)
(* (self.validator of NyaySetuAdvanced), their calls interleaved.  A call   *)
(* is cut where it reads or writes the validator's lists: reset(), the     *)
(* required-field loop, the checks up to the return, and the caller's      *)
(* reading of the lists for its report.                                    *)
(***************************************************************************)
Requests == {1, 2}

\* what a request calls: either method, on an input of its kind
RequestCalls ==
    { [ method |-> "validate_rti_application", user_data |-> d ] :
          d \in SequenceRtiInputs }
    \cup { [ method |-> "validate_affidavit", user_data |-> d ] :
          d \in SequenceAffidavitInputs }

InitInterleaved ==
    /\ jurisdictions \in JurisdictionFiles
    /\ rti_categories \in CategoryFiles \ {<<>>}
    /\ user_data = FromOptions([ x \in {} |-> <<>> ])
    /\ errors = <<>> /\ warnings = <<>>
    /\ blocking_issues = <<>> /\ suggestions = <<>>
    /\ returned = None
    /\ last_call = None
    /\ requests \in [ Requests ->
                         { [ call |-> c, pc |-> "call", returned |-> FALSE,
                             report |-> NoFindings ] : c \in RequestCalls } ]
    /\ SequenceIdle
    /\ QuestionsIdle
    /\ LifecyclesIdle
    /\ ClassifierIdle
    /\ TableIdle
    /\ FlowsIdle

\* the validator's lists become v and request r moves on
Step(r, v, next) ==
    /\ errors' = v.errors
    /\ warnings' = v.warnings
    /\ blocking_issues' = v.blocking_issues
    /\ suggestions' = v.suggestions
    /\ requests' = [requests EXCEPT ![r] = next]
    /\ UNCHANGED <<user_data, jurisdictions, rti_categories, returned,
                   last_call, cvars, tvars, fvars, svars, qvars,
                   lvars>>

\* self.reset(), first statement of the method
RequestReset(r) ==
    /\ requests[r].pc = "call"
    /\ Step(r, ResetFindings(Findings), [requests[r] EXCEPT !.pc = "required"])

\* the required-field loop of the method
RequestRequired(r) ==
    /\ requests[r].pc = "required"
    /\ Step(r,
            IF requests[r].call.method = "validate_rti_application"
            THEN RtiRequiredStep(Findings, requests[r].call.user_data)
            ELSE AffidavitRequiredStep(Findings, requests[r].call.user_data),
            [requests[r] EXCEPT !.pc = "checks"])

\* the rest of the method, from `if self.errors` to its return
RequestChecks(r) ==
    /\ requests[r].pc = "checks"
    /\ \E run \in {IF requests[r].call.method = "validate_rti_application"
                    THEN RtiChecks(Findings, requests[r].call.user_data,
                                   jurisdictions, rti_categories, Today)
                    ELSE AffidavitChecks(Findings, requests[r].call.user_data,
                                         jurisdictions)} :
          Step(r, run.v, [requests[r] EXCEPT !.pc = "returned",
                                             !.returned = run.returned])

\* the caller reads the validator's lists for the report of its request
RequestReport(r) ==
    /\ requests[r].pc = "returned"
    /\ Step(r, Findings, [requests[r] EXCEPT !.pc = "done",
                                             !.report = Findings])

NextInterleaved ==
    \E r \in Requests :
        \/ RequestReset(r)
        \/ RequestRequired(r)
        \/ RequestChecks(r)
        \/ RequestReport(r)

SpecInterleaved == InitInterleaved /\ [][NextInterleaved]_vars

-----------------------------------------------------------------------------
(***************************************************************************)
(* _select_clarification_questions(description, scores) called on its own, *)
(* on any description and any score mapping.                               *)
(***************************************************************************)
\* words that trigger categories of the question bank
QuestionFragments ==
    { "record", "Office", "marksheet", "why", "lost", "income", "court" }

QuestionDescriptions ==
    Descriptions \cup QuestionFragments
        \cup {f \o " " \o g : f \in QuestionFragments, g \in QuestionFragments}

\* the scores argument: a dict with any of the two types as keys
ScoreMappings ==
    UNION { [ keys -> {Num(0), Num(10), Num(30)} ] : keys \in SUBSET DocTypes }

InitQuestions ==
    /\ question_args \in [ description : QuestionDescriptions,
                            scores : ScoreMappings ]
    /\ selection = NotSelected
    /\ SequenceIdle
    /\ RequestsIdle
    /\ LifecyclesIdle
    /\ ClassifierIdle
    /\ TableIdle
    /\ ValidatorIdle
    /\ FlowsIdle

\* DocumentOrchestrator._select_clarification_questions(description, scores)
SelectQuestions ==
    /\ ~selection.returned
    /\ selection' =
           [ returned |-> TRUE,
             questions |-> SelectClarificationQuestions(
                               TriggeredCategories(Lower(question_args.description)),
                               question_args.scores) ]
    /\ UNCHANGED <<question_args, cvars, tvars, vvars, fvars, svars, ivars,
                   lvars>>

NextQuestions == SelectQuestions

SpecQuestions == InitQuestions /\ [][NextQuestions]_vars

-----------------------------------------------------------------------------
(***************************************************************************)
(* Properties of the classifier.                                           *)
(***************************************************************************)
Returned == result.status \in {"success", "needs_clarification"}
Ended == result.status # "none"

PositiveMatches(doc_type, desc) ==
    Matches(TEMPLATES[doc_type].keywords, Lower(desc))
NegativeMatches(doc_type, desc) ==
    Matches(TEMPLATES[doc_type].negative_keywords, Lower(desc))
EdgeMatches(desc) == Matches(EdgeCaseKeywords, Lower(desc))

\* the descriptions in which no positive keyword, no negative keyword and no
\* edge-case phrase occurs
UnmatchedDescriptions ==
    {d \in Descriptions :
        /\ \A t \in DocTypes : PositiveMatches(t, d) = 0 /\ NegativeMatches(t, d) = 0
        /\ EdgeMatches(d) = 0}

C4_ScoresNonNegativeIntegers ==
    Ended => \A t \in DOMAIN scores : IsInteger(scores[t]) /\ scores[t].v >= 0

\* C5: every run of analyze_requirements returns a result with status
\* success or needs_clarification; none raises.
C5_NeverRaises == Ended => Returned

\* C6: success exactly when the final confidence is at least 70,
\* needs_clarification exactly when it is below 70, and the confidence
\* reported is on the same side of 70.
C6_StatusFollowsConfidence ==
    Ended =>
        /\ result.status = "success" <=> NumGE(locals.confidence, ConfidenceThreshold)
        /\ result.status = "needs_clarification"
               <=> NumLT(locals.confidence, ConfidenceThreshold)
        /\ result.status = "success" => NumGE(result.confidence, ConfidenceThreshold)
        /\ result.status = "needs_clarification"
               => NumLT(result.confidence, ConfidenceThreshold)

\* C7: the threshold table is monotonic: no pair that is at least the pair
\* just mapped, in both coordinates, maps to a lower confidence.
C7_ConfidenceMonotonic ==
    confidence # 0 =>
        \A ms \in max_score..MaxScore : \A gap \in score_gap..MaxScore :
            KeywordConfidence(ms, gap) >= confidence

C7_Witness == confidence = 85 /\ max_score = 20 /\ score_gap = 10

\* the descriptions with a positive keyword of doc_type and no keyword,
\* positive or negative, of the other type
OnlyKeywordsOf(doc_type) ==
    {d \in Descriptions :
        /\ PositiveMatches(doc_type, d) >= 1
        /\ \A other \in DocTypes \ {doc_type} :
               PositiveMatches(other, d) = 0 /\ NegativeMatches(other, d) = 0}

OnlyRti == OnlyKeywordsOf("RTI_APPLICATION")
OnlyAffidavit == OnlyKeywordsOf("AFFIDAVIT")
WithEdgeCase == {d \in Descriptions : EdgeMatches(d) >= 1}

\* C8 as stated: keywords of one type only and a resulting confidence of at
\* least 70 give a success result for that type, for either type, edge-case
\* phrases or not.
C8_OnlyTypeResolvesToIt ==
    \A doc_type \in DocTypes :
        (/\ Ended
         /\ description \in OnlyKeywordsOf(doc_type)
         /\ NumGE(locals.confidence, ConfidenceThreshold))
        => (result.status = "success" /\ result.primary_document = doc_type)

\* C8 amended: keywords of one type only and a keyword-based confidence of at
\* least 70 give a success result for that type, provided that for
\* RTI_APPLICATION the description holds no edge-case phrase.
C8_OnlyTypeResolvesWithoutEdgeCase ==
    /\ (/\ Ended
        /\ description \in OnlyAffidavit
        /\ locals.keyword_confidence >= ConfidenceThreshold)
       => (result.status = "success" /\ result.primary_document = "AFFIDAVIT")
    /\ (/\ Ended
        /\ description \in OnlyRti \ WithEdgeCase
        /\ locals.keyword_confidence >= ConfidenceThreshold)
       => (result.status = "success" /\ result.primary_document = "RTI_APPLICATION")

C8_Witness ==
    /\ description \in OnlyRti \ WithEdgeCase
    /\ locals.keyword_confidence >= ConfidenceThreshold
    /\ result.status = "success"
    /\ result.primary_document = "RTI_APPLICATION"

-----------------------------------------------------------------------------
(***************************************************************************)
(* Properties of the validator.                                            *)
(***************************************************************************)
Validated == last_call \in {"validate_rti_application", "validate_affidavit"}
ValidatedAffidavit == last_call = "validate_affidavit"

\* C1: when a validate call returns, it returned true exactly when
\* blocking_issues and errors are both empty, whatever warnings and
\* suggestions hold, and has_blocking_issues() is the negation of what it
\* returned.
C1_PassedIffNoBlockingNoErrors ==
    Validated =>
        /\ returned <=> (blocking_issues = <<>> /\ errors = <<>>)
        /\ HasBlockingIssues(blocking_issues, errors) <=> ~returned

C1_Witness ==
    /\ ValidatedAffidavit
    /\ returned
    /\ warnings # <<>> /\ suggestions # <<>>
    /\ ~HasBlockingIssues(blocking_issues, errors)

AllRequiredPresent(d) ==
    \A i \in 1..Len(AffidavitRequiredFields) : Truthy(d, AffidavitRequiredFields[i])

NoGuardianFields(d) ==
    /\ KeyAbsent(d, "guardian_name")
    /\ KeyAbsent(d, "guardian_age")
    /\ KeyAbsent(d, "guardian_father_name")

\* the limit a profile file sets for a state, 18 when it sets none
LimitOf(jur, state) ==
    IF state \in DOMAIN jur
       /\ "guardian_age_limit" \in DOMAIN jur[state].affidavit_rules
    THEN jur[state].affidavit_rules.guardian_age_limit
    ELSE 18

\* the guardian threshold of the input's own state: an input without a
\* state has no profile
ThresholdOfOwnState(jur, d) ==
    IF KeyAbsent(d, "state") THEN 18 ELSE LimitOf(jur, d.state)

\* the guardian threshold of the input's state, Maharashtra when the input
\* names none
ThresholdOfStateOrDefault(jur, d) ==
    LimitOf(jur, IF KeyAbsent(d, "state") THEN "Maharashtra" ELSE d.state)

AgeIn(d, lo, hi) ==
    /\ Truthy(d, "age")
    /\ PyInt(d.age).ok
    /\ PyInt(d.age).value >= lo /\ PyInt(d.age).value <= hi

NamesLongEnough(d) ==
    /\ Truthy(d, "deponent_name") /\ Len(d.deponent_name) >= 3
    /\ Truthy(d, "father_name") /\ Len(d.father_name) >= 3
    /\ Truthy(d, "guardian_name") => Len(d.guardian_name) >= 3

StateAbsentOrValid(d) == KeyAbsent(d, "state") \/ d.state \in INDIAN_STATES

NonEmptyStatement(s) == Len(Strip(s)) > 0

\* C10 as stated: long enough names, an address with a 6-digit code, an age
\* from the guardian threshold to 120, a state absent or valid and at least
\* one non-empty statement pass with no blocking issue and no error.
C10_CompliantAffidavitPasses ==
    (/\ ValidatedAffidavit
     /\ NamesLongEnough(user_data)
     /\ Truthy(user_data, "address") /\ PinPatternFound(user_data.address)
     /\ AgeIn(user_data, ThresholdOfOwnState(jurisdictions, user_data), 120)
     /\ StateAbsentOrValid(user_data)
     /\ Truthy(user_data, "statements")
     /\ \E i \in 1..Len(user_data.statements) :
            NonEmptyStatement(user_data.statements[i]))
    => (returned /\ blocking_issues = <<>> /\ errors = <<>>)

\* C10 amended: long enough names, an address with a 6-digit code, an age
\* from the guardian threshold of the input's state (of Maharashtra when it
\* names none) to 120, a state absent or valid and one or more statements,
\* all of them non-empty, pass with no blocking issue and no error.
C10_CompliantAffidavitAllStatementsPasses ==
    (/\ ValidatedAffidavit
     /\ NamesLongEnough(user_data)
     /\ Truthy(user_data, "address") /\ PinPatternFound(user_data.address)
     /\ AgeIn(user_data,
              ThresholdOfStateOrDefault(jurisdictions, user_data), 120)
     /\ StateAbsentOrValid(user_data)
     /\ Truthy(user_data, "statements")
     /\ \A i \in 1..Len(user_data.statements) :
            NonEmptyStatement(user_data.statements[i]))
    => (returned /\ blocking_issues = <<>> /\ errors = <<>>)

C10_Witness ==
    /\ ValidatedAffidavit
    /\ NamesLongEnough(user_data)
    /\ PinPatternFound(user_data.address)
    /\ AgeIn(user_data,
             ThresholdOfStateOrDefault(jurisdictions, user_data), 120)
    /\ KeyAbsent(user_data, "state")
    /\ Len(user_data.statements) = 2
    /\ \A i \in 1..Len(user_data.statements) :
           NonEmptyStatement(user_data.statements[i])
    /\ returned /\ blocking_issues = <<>> /\ errors = <<>>

-----------------------------------------------------------------------------
(***************************************************************************)
(* Properties of the generation flows.                                     *)
(***************************************************************************)
\* what the last call of a sequence gives on a validator just constructed
AloneOnFreshValidator ==
    IF last_call = "validate_rti_application"
    THEN ValidateRtiApplicationOn(NoFindings, user_data, jurisdictions,
                                  rti_categories, Today)
    ELSE ValidateAffidavitOn(NoFindings, user_data, jurisdictions)

\* ---------------------------------------------------------------------
\* DocumentLifecycle: create_lifecycle and update_state on one manager, with
\* the database connected or with the local fallback
\* ---------------------------------------------------------------------
Hashes == { "a1b2", "c3d4" }

\* the arguments of create_lifecycle: the types the generators pass, and the
\* third type _calculate_deadlines knows, with and without a notice period
CreateArguments ==
    { [ doc_type |-> "RTI_Application", metadata |-> EmptyDict ],
      [ doc_type |-> "Affidavit", metadata |-> EmptyDict ],
      [ doc_type |-> "Legal_Notice", metadata |-> EmptyDict ],
      [ doc_type |-> "Legal_Notice", metadata |-> [ notice_period_days |-> 7 ] ] }

\* the arguments of update_state: keys of STATES and a state that is none
UpdateArguments ==
    { [ new_state |-> "SUBMITTED", notes |-> "sent by post" ],
      [ new_state |-> "DRAFTED", notes |-> "" ],
      [ new_state |-> "ARCHIVED", notes |-> "" ] }

\* DocumentLifecycle.__init__
InitLifecycle ==
    /\ db_client \in BOOLEAN
    /\ db_lifecycles = EmptyDict
    /\ lifecycles = EmptyDict
    /\ lifecycle_call = NoLifecycleCall
    /\ SequenceIdle
    /\ RequestsIdle
    /\ QuestionsIdle
    /\ ClassifierIdle
    /\ TableIdle
    /\ ValidatorIdle
    /\ FlowsIdle

\* create_lifecycle with the database connected: the record is saved, then
\* self.lifecycles is read again from the database
CreateLifecycleInDatabase ==
    /\ db_client
    /\ \E doc_hash \in Hashes, a \in CreateArguments, save_ok \in BOOLEAN,
          find_ok \in BOOLEAN :
         LET deadlines == CalculateDeadlines(a.doc_type, a.metadata)
             saved == SaveLifecycle(db_lifecycles, doc_hash, a.doc_type,
                                    a.metadata, deadlines, save_ok)
         IN  /\ db_lifecycles' = saved
             /\ lifecycles' = GetLifecycles(saved, find_ok)
             /\ lifecycle_call' =
                    [ op |-> "create_lifecycle", doc_hash |-> doc_hash,
                      raised |-> FALSE, returned |-> TRUE,
                      deadlines |-> deadlines ]
    /\ UNCHANGED <<db_client, cvars, tvars, vvars, fvars, svars, ivars, qvars>>

\* create_lifecycle with the local fallback: the record is assigned to the key
CreateLifecycleLocally ==
    /\ ~db_client
    /\ \E doc_hash \in Hashes, a \in CreateArguments :
         LET deadlines == CalculateDeadlines(a.doc_type, a.metadata)
         IN  /\ lifecycles' =
                    DictSet(lifecycles, doc_hash,
                            NewLifecycle(a.doc_type, a.metadata, deadlines))
             /\ lifecycle_call' =
                    [ op |-> "create_lifecycle", doc_hash |-> doc_hash,
                      raised |-> FALSE, returned |-> TRUE,
                      deadlines |-> deadlines ]
    /\ UNCHANGED <<db_client, db_lifecycles, cvars, tvars, vvars, fvars, svars,
                   ivars, qvars>>

\* update_state on a hash that is not a key of self.lifecycles
UpdateStateUntracked ==
    /\ \E doc_hash \in Hashes \ DOMAIN lifecycles :
         lifecycle_call' =
             [ op |-> "update_state", doc_hash |-> doc_hash, raised |-> FALSE,
               returned |-> FALSE, deadlines |-> EmptyDict ]
    /\ UNCHANGED <<db_client, db_lifecycles, lifecycles, cvars, tvars, vvars,
                   fvars, svars, ivars, qvars>>

\* update_state on a tracked hash: the record in self.lifecycles is changed,
\* then self._save_lifecycles(), which no class defines, raises AttributeError
UpdateStateTracked ==
    /\ \E doc_hash \in DOMAIN lifecycles, a \in UpdateArguments :
         LET lifecycle == lifecycles[doc_hash]
             new_state == a.new_state
             notes == a.notes
         IN  /\ Len(lifecycle.state_history) < MaxHistory
             /\ lifecycles' =
                    [ lifecycles EXCEPT ![doc_hash] =
                        [ lifecycle EXCEPT
                            !.current_state = new_state,
                            !.state_history =
                                Append(@, [ state |-> new_state,
                                            notes |-> notes ]) ] ]
             /\ lifecycle_call' =
                    [ op |-> "update_state", doc_hash |-> doc_hash,
                      raised |-> TRUE, returned |-> FALSE,
                      deadlines |-> EmptyDict ]
    /\ UNCHANGED <<db_client, db_lifecycles, cvars, tvars, vvars, fvars, svars,
                   ivars, qvars>>

NextLifecycle ==
    \/ CreateLifecycleInDatabase
    \/ CreateLifecycleLocally
    \/ UpdateStateUntracked
    \/ UpdateStateTracked

SpecLifecycle == InitLifecycle /\ [][NextLifecycle]_vars

\* C17: across every create_lifecycle and update_state, every tracked
\* document stays tracked and its earlier history entries stay in place
\* with the same state and notes; the history only grows at its end
C17_HistoryAppendOnly ==
    [][ \A h \in DOMAIN lifecycles :
          /\ h \in DOMAIN lifecycles'
          /\ Len(lifecycles'[h].state_history) >= Len(lifecycles[h].state_history)
          /\ \A i \in 1..Len(lifecycles[h].state_history) :
               lifecycles'[h].state_history[i] = lifecycles[h].state_history[i]
      ]_vars

\* the keyword scores of the two document types are equal
ScoresTied(desc) ==
    \A t \in DocTypes, u \in DocTypes :
        KeywordScore(t, Lower(desc)) = KeywordScore(u, Lower(desc))

\* C18: whenever the scores of the two document types are equal, both zero
\* or both the same positive value, the call returns needs_clarification
C18_TiedScoresNeedClarification ==
    (Ended /\ ScoresTied(description)) => result.status = "needs_clarification"

\* C11: after any sequence of validate calls of either kind on one
\* validator, the four lists and the value returned are those the last
\* call's input gives on a validator just constructed: the same input gives
\* the same lists again, and nothing an earlier call found remains.
C11_LastCallAlone ==
    Validated =>
        /\ Findings = AloneOnFreshValidator.v
        /\ returned = AloneOnFreshValidator.returned

\* a call that began with errors, blocking issues and warnings of an earlier
\* call in the lists, and passed with fewer warnings than it began with
C11_Witness ==
    /\ Validated
    /\ earlier.errors # <<>>
    /\ earlier.blocking_issues # <<>>
    /\ Len(earlier.warnings) > Len(warnings)
    /\ errors = <<>> /\ blocking_issues = <<>>
    /\ returned = TRUE

\* what the call of request r gives when it runs alone
Alone(r) ==
    IF requests[r].call.method = "validate_rti_application"
    THEN ValidateRtiApplicationOn(NoFindings, requests[r].call.user_data,
                                  jurisdictions, rti_categories, Today)
    ELSE ValidateAffidavitOn(NoFindings, requests[r].call.user_data,
                             jurisdictions)

\* C12: of two validation requests interleaved on the shared validator, each
\* gets the findings and the pass/fail result it gets when it runs alone.
C12_RequestsIsolated ==
    \A r \in DOMAIN requests :
        requests[r].pc = "done" =>
            /\ requests[r].report = Alone(r).v
            /\ requests[r].returned = Alone(r).returned

\* C13: for every description and every score mapping, the empty one
\* included, _select_clarification_questions returns at least 2 and at most
\* 4 questions.
C13_TwoToFourQuestions ==
    selection.returned =>
        /\ Len(selection.questions) >= 2
        /\ Len(selection.questions) <= MaxQuestions

\* the fallback: nothing in the text triggers a category and the score
\* mapping is empty, and two questions are returned
C13_Witness ==
    /\ selection.returned
    /\ question_args.scores = <<>>
    /\ TriggeredCategories(Lower(question_args.description)) = {}
    /\ Len(selection.questions) = 2

\* C14: in every needs_clarification result, the "Yes" and the "No" option of
\* every question lead to document types of {RTI_APPLICATION, AFFIDAVIT},
\* and to different ones.
C14_YesAndNoLeadToDifferentTypes ==
    result.status = "needs_clarification" =>
        \A i \in 1..Len(result.questions) :
            /\ result.questions[i].yes \in DocTypes
            /\ result.questions[i].no \in DocTypes
            /\ result.questions[i].yes # result.questions[i].no

\* the required fields of the method that was called
RequiredFieldsOfCall ==
    IF last_call = "validate_rti_application" THEN RtiRequiredFields
    ELSE AffidavitRequiredFields

\* the required fields the input of the call lacks: the key is absent or its
\* value is empty, or, for an RTI application, is blank text
LackingFields ==
    {i \in 1..Len(RequiredFieldsOfCall) :
        LET field == RequiredFieldsOfCall[i]
        IN  \/ field \notin DOMAIN user_data
            \/ Len(user_data[field]) = 0
            \/ /\ last_call = "validate_rti_application"
               /\ \A k \in 1..Len(user_data[field]) :
                      Char(user_data[field], k) = " "}

\* C15: when a required field is missing, the validate call returns false
\* with exactly one missing-field error per missing required field, in the
\* order of the fields, and nothing in the other three lists.
C15_MissingFieldsOnly ==
    (Validated /\ LackingFields # {}) =>
        /\ returned = FALSE
        /\ Len(errors) = Cardinality(LackingFields)
        /\ \A k \in 1..Len(errors) :
               \E i \in LackingFields :
                   /\ errors[k] = "Missing required field: "
                                     \o RequiredFieldsOfCall[i]
                   /\ Cardinality({j \in LackingFields : j < i}) = k - 1
        /\ blocking_issues = <<>>
        /\ warnings = <<>>
        /\ suggestions = <<>>

\* a call on an input that lacks two required fields and has faults in the
\* fields it holds
C15_Witness ==
    /\ ValidatedAffidavit
    /\ Cardinality(LackingFields) = 2
    /\ "age" \in DOMAIN user_data /\ user_data.age = "abc"
    /\ "state" \in DOMAIN user_data /\ user_data.state = "Atlantis"
    /\ returned = FALSE

\* what the checks of validate_affidavit after the age check find in d, each
\* check run by itself
AffidavitCheckFindings(d, jur) ==
    { ValidateName(NoFindings, d.deponent_name, "Deponent Name"),
      ValidateName(NoFindings, d.father_name, "Father's/Husband's Name"),
      ValidateAddress(NoFindings, d.address),
      ValidateAffidavitStatements(NoFindings, d.statements) }
    \cup IF Truthy(d, "state")
         THEN { ValidateStateJurisdiction(NoFindings, d.state, jur),
                CheckStampRequirements(NoFindings, d.state, jur) }
         ELSE {}

\* what the checks of validate_rti_application find in d, each run by itself
RtiCheckFindings(d, jur, cats) ==
    { ValidateName(NoFindings, d.name, "Applicant Name"),
      ValidateAddress(NoFindings, d.address),
      ValidateStateJurisdiction(NoFindings, d.state, jur),
      ValidateAuthorityName(NoFindings, d.authority),
      ValidateInformationRequest(NoFindings, d.info),
      CheckSection8Compliance(NoFindings, d.info, cats) }
    \cup IF Truthy(d, "contact")
         THEN { ValidateContact(NoFindings, d.contact) }
         ELSE {}

\* every finding of c is in the list of its severity of v
Reports(v, c) ==
    /\ \A i \in 1..Len(c.errors) :
           \E j \in 1..Len(v.errors) : v.errors[j] = c.errors[i]
    /\ \A i \in 1..Len(c.warnings) :
           \E j \in 1..Len(v.warnings) : v.warnings[j] = c.warnings[i]
    /\ \A i \in 1..Len(c.blocking_issues) :
           \E j \in 1..Len(v.blocking_issues) :
               v.blocking_issues[j] = c.blocking_issues[i]
    /\ \A i \in 1..Len(c.suggestions) :
           \E j \in 1..Len(v.suggestions) : v.suggestions[j] = c.suggestions[i]

\* the findings of the checks that apply to the input of the last call
ApplicableCheckFindings ==
    IF last_call = "validate_rti_application"
    THEN RtiCheckFindings(user_data, jurisdictions, rti_categories)
    ELSE AffidavitCheckFindings(user_data, jurisdictions)

\* C19: when every required field is present, every applicable check runs
\* and reports its findings in the same call, whatever the other checks
\* found: also the name, address, statement and state checks of an affidavit
\* whose age is not a number or is outside 1..120
C19_EveryCheckReports ==
    (Validated /\ LackingFields = {}) =>
        \A c \in ApplicableCheckFindings : Reports(Findings, c)

\* the same for validate_rti_application alone
RtiChecksAllReport ==
    (last_call = "validate_rti_application" /\ LackingFields = {}) =>
        \A c \in ApplicableCheckFindings : Reports(Findings, c)

\* max(0, 10p - 20n) for the matches of doc_type in desc
FlooredPenalty(doc_type, desc) ==
    Max2(0, PositiveMatches(doc_type, desc) * PositiveWeight
                - NegativeMatches(doc_type, desc) * NegativeWeight)

\* C20: the RTI_APPLICATION score is max(0, 10p - 20n) and the AFFIDAVIT
\* score is max(0, 10p - 20n) + 50k: the floor is applied first and the
\* edge-case bonus is added after it, so that no negative keyword cancels
\* any part of the bonus
C20_FloorThenBonus ==
    (Ended /\ groq_response = NotCalled) =>
        /\ scores["RTI_APPLICATION"]
               = Num(FlooredPenalty("RTI_APPLICATION", description))
        /\ scores["AFFIDAVIT"]
               = Num(FlooredPenalty("AFFIDAVIT", description)
                         + EdgeBoost * EdgeMatches(description))

\* the RTI_APPLICATION half of it
RtiScoreIsFlooredPenalty ==
    (Ended /\ groq_response = NotCalled) =>
        scores["RTI_APPLICATION"]
            = Num(FlooredPenalty("RTI_APPLICATION", description))

\* C21: one analyze_requirements call calls the service at most once, a
\* failed call included, and not at all when the keyword-based confidence is
\* at least 70, when every score is zero or when no API key is configured
C21_ServiceCalledAtMostOnce ==
    Ended =>
        /\ groq_calls \in {0, 1}
        /\ groq_calls = 1 <=> groq_response # NotCalled
        /\ locals.keyword_confidence >= ConfidenceThreshold => groq_calls = 0
        /\ NoMatches(KeywordScores(Lower(description))) => groq_calls = 0
        /\ ~api_key => groq_calls = 0

\* a run whose one service call failed, and that was not called again
C21_Witness ==
    /\ Ended
    /\ api_key
    /\ groq_calls = 1
    /\ groq_response.kind = "exception"
    /\ result.status = "needs_clarification"

\* what analyze_requirements computes for the description of the last run
\* when no service is configured
WithoutService == AnalyzeFrom(TextFacts(description), FALSE, NotCalled)

\* the service was called and failed, returned nothing, or returned a
\* confidence below 80 (none counts as 0) without a clarification flag
ServiceGaveNoVerdict ==
    /\ groq_calls = 1
    /\ \/ groq_response.kind \in {"exception", "nondict"}
       \/ ~GroqTruthy(groq_response)
       \/ /\ groq_response.kind = "payload"
          /\ groq_response.confidence.t \in {"num", "absent"}
          /\ NumLT(groq_response.confidence.n, GroqAdoptThreshold)
          /\ ~groq_response.clarification_needed

\* C22: when the keyword-based confidence is below 70 and the service call
\* fails, returns nothing or returns a confidence below 80 without a
\* clarification flag, the result is the one obtained with no service
\* configured; the type and the confidence of the run differ from the
\* keyword-based ones only when the service's confidence is at least 80
C22_FallsBackToKeywordResult ==
    Ended =>
        /\ ServiceGaveNoVerdict => result = WithoutService.result
        /\ (\/ locals.primary_doc # WithoutService.locals.primary_doc
            \/ locals.confidence # WithoutService.locals.confidence)
           => /\ groq_response.confidence.t = "num"
              /\ NumGE(groq_response.confidence.n, GroqAdoptThreshold)

\* the service named the other type with confidence 79.5 and the run asked
\* for clarification, suggesting the keyword-based type
C22_Witness ==
    /\ Ended
    /\ groq_calls = 1
    /\ groq_response.kind = "payload"
    /\ groq_response.confidence = [t |-> "num", n |-> Frac(79)]
    /\ ~groq_response.clarification_needed
    /\ groq_response.document_type = "AFFIDAVIT"
    /\ result.status = "needs_clarification"
    /\ result.suggested_document = "RTI_APPLICATION"

\* the categories of the bank triggered by the text of the last selection
\* whose category is the higher-scoring document type
FavouredCategories ==
    {i \in TriggeredCategories(Lower(question_args.description)) :
        /\ PrimaryCategory(question_args.scores) # "BOTH"
        /\ CLARIFICATION_QUESTIONS[i].category
               = PrimaryCategory(question_args.scores)}

\* the positions in the selection of the first question of category i
PositionsOf(i) ==
    {k \in 1..Len(selection.questions) :
        selection.questions[k].text = CLARIFICATION_QUESTIONS[i].questions[1]}

\* C23: among the triggered categories of the higher-scoring type, one that
\* comes earlier in the question bank is selected ahead of one that comes
\* later, and every selected category contributes its first two questions
\* in table order
C23_EarlierCategoryFirst ==
    selection.returned =>
        /\ \A i \in FavouredCategories, j \in FavouredCategories :
               (i < j /\ PositionsOf(j) # {}) =>
                   \E m \in PositionsOf(i) : \A k \in PositionsOf(j) : m < k
        /\ \A i \in 1..Len(CLARIFICATION_QUESTIONS) : \A k \in PositionsOf(i) :
               /\ k + 1 <= Len(selection.questions)
               /\ selection.questions[k + 1].text
                      = CLARIFICATION_QUESTIONS[i].questions[2]

\* the second half of it
FirstTwoQuestionsInTableOrder ==
    selection.returned =>
        \A i \in 1..Len(CLARIFICATION_QUESTIONS) : \A k \in PositionsOf(i) :
            /\ k + 1 <= Len(selection.questions)
            /\ selection.questions[k + 1].text
                   = CLARIFICATION_QUESTIONS[i].questions[2]

GuardianFields == {"guardian_name", "guardian_age", "guardian_father_name"}

\* the last call was validate_affidavit on an input with every required
\* field whose deponent is below the guardian threshold the call applies
MinorValidated ==
    /\ ValidatedAffidavit
    /\ AllRequiredPresent(user_data)
    /\ AgeIn(user_data, 1,
             ThresholdOfStateOrDefault(jurisdictions, user_data) - 1)

\* the guardian's age is given and is a number below 18
GuardianUnderAge(d) ==
    /\ Truthy(d, "guardian_age")
    /\ PyInt(d.guardian_age).ok
    /\ PyInt(d.guardian_age).value < GuardianMinAge

\* C24: for a deponent below the guardian threshold, each of guardian_name,
\* guardian_age and guardian_father_name that is absent produces a blocking
\* finding, a guardian_age below 18 produces a blocking finding, and in each
\* of these cases validate_affidavit returns false
C24_MissingGuardianDetailBlocks ==
    MinorValidated =>
        /\ \A f \in GuardianFields :
               ~Truthy(user_data, f) => (blocking_issues # <<>> /\ returned = FALSE)
        /\ GuardianUnderAge(user_data)
               => (blocking_issues # <<>> /\ returned = FALSE)

\* the part of it about the value returned
MissingGuardianDetailFails ==
    MinorValidated =>
        /\ \A f \in GuardianFields :
               ~Truthy(user_data, f) => (errors # <<>> /\ returned = FALSE)
        /\ GuardianUnderAge(user_data)
               => (blocking_issues # <<>> /\ returned = FALSE)

\* the keys of STATES in the order of the dict
StateOrder ==
    << "DRAFTED", "SUBMITTED", "ACKNOWLEDGED", "REPLY_RECEIVED", "APPEAL_FILED",
       "CLOSED" >>

\* the place of a state in that order, 0 for a state that is no key
StateRank(state) ==
    IF state \in STATES
    THEN CHOOSE i \in 1..Len(StateOrder) : StateOrder[i] = state
    ELSE 0

\* C25: after every create_lifecycle and update_state call the current state
\* of every tracked document is a key of STATES, a document that was not
\* tracked before the call is in DRAFTED, and update_state never moves a
\* document backwards in the order of STATES
C25_StatesEnumeratedAndForward ==
    [][ \A h \in DOMAIN lifecycles' :
          /\ lifecycles'[h].current_state \in STATES
          /\ h \notin DOMAIN lifecycles
                 => lifecycles'[h].current_state = "DRAFTED"
          /\ (h \in DOMAIN lifecycles /\ lifecycle_call'.op = "update_state")
                 => StateRank(lifecycles'[h].current_state)
                        >= StateRank(lifecycles[h].current_state)
      ]_vars

\* the part of it about new documents
NewDocumentsAreDrafted ==
    [][ \A h \in DOMAIN lifecycles' \ DOMAIN lifecycles :
          lifecycles'[h].current_state = "DRAFTED" ]_vars

\* the step is an update_state call on a hash that is not tracked: nothing
\* changes and False is returned
UntrackedUpdateRefused ==
    /\ ~lifecycle_call'.raised
    /\ lifecycle_call'.returned = FALSE
    /\ lifecycles' = lifecycles
    /\ db_lifecycles' = db_lifecycles

\* the step is an update_state call on the tracked hash h: one entry is
\* appended to its history, and its state is the new current state
TrackedUpdateAppendsOne(h) ==
    LET old == lifecycles[h].state_history
        new == lifecycles'[h].state_history
    IN  /\ Len(new) = Len(old) + 1
        /\ SubSeq(new, 1, Len(old)) = old
        /\ new[Len(new)].state = lifecycles'[h].current_state

\* C26: update_state returns False and changes nothing when the hash is not
\* tracked; when it is tracked the call completes normally and returns True,
\* having appended exactly one history entry whose state is the new current
\* state
C26_UpdateStateCompletes ==
    [][ lifecycle_call'.op = "update_state" =>
          IF lifecycle_call'.doc_hash \notin DOMAIN lifecycles
          THEN UntrackedUpdateRefused
          ELSE /\ ~lifecycle_call'.raised
               /\ lifecycle_call'.returned = TRUE
               /\ TrackedUpdateAppendsOne(lifecycle_call'.doc_hash)
      ]_vars

\* what update_state does to the record, whatever way the call ends
UpdateStateChangesRecord ==
    [][ lifecycle_call'.op = "update_state" =>
          IF lifecycle_call'.doc_hash \notin DOMAIN lifecycles
          THEN UntrackedUpdateRefused
          ELSE TrackedUpdateAppendsOne(lifecycle_call'.doc_hash)
      ]_vars

\* the documents update_state has been applied to, as self.lifecycles shows
UpdatedDocuments ==
    {h \in DOMAIN lifecycles : Len(lifecycles[h].state_history) > 1}

\* the step is a create_lifecycle call for a document other than h, and h
\* is still tracked in the state update_state left it in
KeepsStateOf(h) ==
    (lifecycle_call'.op = "create_lifecycle" /\ lifecycle_call'.doc_hash # h)
        => /\ h \in DOMAIN lifecycles'
           /\ lifecycles'[h].current_state = lifecycles[h].current_state

\* C27: the current state update_state gave a tracked document stays, as
\* seen through self.lifecycles, across every create_lifecycle call for
\* another document, with the database connected and with the local fallback
C27_StateSurvivesOtherCreates ==
    [][ \A h \in UpdatedDocuments : KeepsStateOf(h) ]_vars

\* the same with the local fallback only
LocalStateSurvivesOtherCreates ==
    [][ ~db_client => \A h \in UpdatedDocuments : KeepsStateOf(h) ]_vars

\* C28: every success result names RTI_APPLICATION or AFFIDAVIT as primary
\* document and a confidence from 0 to 100, also when both were adopted from
\* the service's answer
C28_SuccessNamesTypeAndPercentage ==
    result.status = "success" =>
        /\ result.primary_document \in DocTypes
        /\ NumGE(result.confidence, 0)
        /\ ~NumGT(result.confidence, Num(100))

\* the part of it about the document type
SuccessNamesKnownType ==
    result.status = "success" => result.primary_document \in DocTypes

\* where a CLI flow is once its validation has let it through
PastValidation == {"rti_compliance", "rti_generation", "affidavit_generation"}

\* C29: in the CLI flows, whenever the validate call has returned false,
\* has_blocking_issues() is true and the flow is blocked: it is back at its
\* start or at the menu, never past the validation by "proceed anyway"
C29_FailedValidationBlocks ==
    (Validated /\ returned = FALSE) =>
        /\ HasBlockingIssues(blocking_issues, errors)
        /\ pc \notin PastValidation

\* an affidavit flow retried after a validation that failed on errors alone
C29_Witness ==
    /\ Validated
    /\ returned = FALSE
    /\ last_call = "validate_affidavit"
    /\ errors # <<>>
    /\ blocking_issues = <<>>
    /\ pc = "generate_affidavit"

\* the confidences the threshold table can give to scores that are multiples
\* of 10
ReachableConfidences == {98, 95, 85, 65}

\* C30: every keyword score is a multiple of 10, and the keyword-based
\* confidence the threshold table computes from the scores is one of 98, 95,
\* 85 and 65, never 75 and never 50
C30_ConfidenceNever75Or50 ==
    Ended =>
        /\ \A t \in DocTypes : KeywordScore(t, Lower(description)) % 10 = 0
        /\ ~NoMatches(KeywordScores(Lower(description)))
               => locals.keyword_confidence \in ReachableConfidences

\* a run whose keyword-based confidence is 95: scores 30 and 10
C30_Witness ==
    /\ Ended
    /\ KeywordScore("AFFIDAVIT", Lower(description)) = 30
    /\ KeywordScore("RTI_APPLICATION", Lower(description)) = 10
    /\ locals.keyword_confidence = 95

\* the threshold table on every score and gap that are multiples of 10
TableOnMultiplesOfTen ==
    (confidence # 0 /\ max_score >= 10 /\ max_score % 10 = 0
        /\ score_gap % 10 = 0)
    => confidence \in ReachableConfidences

\* the service gave no answer: no API key, or the call failed
ServiceUnavailable == ~api_key \/ groq_response.kind = "exception"

\* C16: with the service unavailable, the description "I need a copy of my
\* marksheet from my university" is classified towards RTI_APPLICATION with
\* a confidence of at least 70.
C16_MarksheetResolvesToRti ==
    (/\ Ended
     /\ description = "I need a copy of my marksheet from my university"
     /\ ServiceUnavailable)
    => /\ \/ /\ result.status = "success"
             /\ result.primary_document = "RTI_APPLICATION"
          \/ /\ result.status = "needs_clarification"
             /\ result.suggested_document = "RTI_APPLICATION"
       /\ NumGE(result.confidence, ConfidenceThreshold)

=============================================================================
